---- MODULE Spec2Model ----
(***************************************************************************)
(* Model of collabkit: the CRDT engine (crdt/base.py, register.py, map.py, *)
(* set.py, counter.py) and the session layer of the server (server.py,     *)
(* room.py).                                                               *)
(***************************************************************************)
EXTENDS Integers, Sequences, FiniteSets, TLC

VARIABLES
    kind,       \* which CRDT type the two replicas are
    rep,        \* the CRDT object of each replica
    ops,        \* every operation created so far; ops[i].id = i
    clock,      \* what time.time() reads
    conn,             \* each channel: "idle", "open" or "closed"
    ws_users,         \* CollabkitServer._ws_users: channel -> user
    ws_rooms,         \* CollabkitServer._ws_rooms: channel -> rooms joined
    user_connections, \* CollabkitServer._user_connections: user -> channels
    rooms,            \* RoomManager._rooms: the rooms that exist
    connections,      \* Room._connections of each room: user -> channel
    room_state,       \* Room._state of each room
    twin_state,       \* Room._state in the run with other client timestamps
    presence,         \* RoomPresence._users of each room
    sent,             \* what the last handler wrote, in order
    handled,          \* the frame the last handler was given
    screen_sharers,   \* CollabkitServer._screen_sharers: room -> sharing user
    auth_attempts,    \* AuthRateLimiter._attempts: channel -> failures counted
    lockout_until,    \* AuthRateLimiter._lockout_until: channel -> end of lockout
    failures,         \* the times of the failed validations of each channel
                      \* since its last successful one
    tokens,           \* RateLimiter._tokens: channel -> tokens in the bucket
    last_update,      \* RateLimiter._last_update: channel -> time of last call
    loop,             \* where the receive loop of each channel stands
    inbox,            \* the frames each client sent that wait to be received
    refused,          \* the frames that waited when the gate answered rate_limited
    dispatched,       \* the frames that were handed to a handler
    passes,           \* the times at which the gate let each channel pass
    pending,          \* the handler of each channel that waits to take the lock
    require_auth,     \* CollabkitServer._require_auth
    allow_anonymous,  \* CollabkitServer._allow_anonymous
    auto_create_rooms, \* CollabkitServer._auto_create_rooms
    ws_lock,          \* CollabkitServer._ws_lock: the channel whose handler holds it
    room_lock,        \* Room._lock of each room: the channel whose handler holds it
    at,               \* the await at which the handler of each channel stands
    event_loop,       \* the asyncio event loop: the tasks that are ready to run,
                      \* in order, and the waiters of Room._lock of each room
    presence_rooms    \* PresenceManager._rooms: room -> user -> last_updated

crdtVars == <<kind, rep, ops, clock>>

serverVars == <<conn, ws_users, ws_rooms, user_connections, rooms, connections,
                room_state, twin_state, presence, sent, handled, screen_sharers>>

authVars == <<auth_attempts, lockout_until, failures>>

rateVars == <<tokens, last_update, loop, inbox, refused, dispatched, passes,
              pending>>

configVars == <<require_auth, allow_anonymous, auto_create_rooms>>

taskVars == <<ws_lock, room_lock, at, event_loop>>

presenceVars == <<presence_rooms>>

sessionVars == <<serverVars, authVars, rateVars, configVars, taskVars,
                 presenceVars>>

vars == <<crdtVars, sessionVars>>

(***************************************************************************)
(* Bounds of the model.                                                    *)
(***************************************************************************)
MaxOps == 3
MaxMapOps == 2
MaxClock == 2

Replicas == {"a", "b"}
Kinds == {"register", "map", "orset", "gcounter", "pncounter"}
Scalars == {1, 2}

(***************************************************************************)
(* Python dicts keep insertion order: a dict is a sequence of <<key, val>> *)
(* pairs with distinct keys; assigning to an existing key keeps its place. *)
(***************************************************************************)
DictKeys(d) == {d[i][1] : i \in 1..Len(d)}

DictHas(d, k) == \E i \in 1..Len(d) : d[i][1] = k

DictGet(d, k) == d[CHOOSE i \in 1..Len(d) : d[i][1] = k][2]

DictSet(d, k, v) ==
    IF DictHas(d, k)
    THEN [i \in 1..Len(d) |-> IF d[i][1] = k THEN <<k, v>> ELSE d[i]]
    ELSE Append(d, <<k, v>>)

(***************************************************************************)
(* JSON values of map operations: a scalar is tagged "scalar" and carries  *)
(* its number, an object is tagged "dict" and carries its items, an        *)
(* insertion-ordered dict of key -> JSON value.                            *)
(***************************************************************************)
Scalar(n) == [tag |-> "scalar", v |-> n]

IsDict(v) == v.tag = "dict"

(***************************************************************************)
(* crdt/base.py                                                            *)
(***************************************************************************)
NoVector == [n \in {} |-> 0]

\* VersionVector.update
VVUpdate(vv, node_id, timestamp) ==
    LET current == IF node_id \in DOMAIN vv THEN vv[node_id] ELSE 0
    IN  [n \in (DOMAIN vv) \cup {node_id} |->
            IF n = node_id
            THEN (IF current >= timestamp THEN current ELSE timestamp)
            ELSE vv[n]]

\* Operation.to_dict
to_dict(op) ==
    [id |-> op.id, timestamp |-> op.timestamp, node_id |-> op.node_id,
     path |-> op.path, op_type |-> op.op_type, value |-> op.value]

\* a decoder that keeps the timestamp of the data
from_dict_client_timestamp(data, use_server_timestamp, now) ==
    [id |-> data.id, timestamp |-> data.timestamp,
     node_id |-> data.node_id, path |-> data.path,
     op_type |-> data.op_type, value |-> data.value]

\* Operation.from_dict: with use_server_timestamp the timestamp in the data is
\* dropped and the clock at decode time (now) is taken instead.
from_dict(data, use_server_timestamp, now) ==
    [id |-> data.id,
     timestamp |-> IF use_server_timestamp THEN now ELSE data.timestamp,
     node_id |-> data.node_id, path |-> data.path,
     op_type |-> data.op_type, value |-> data.value]

\* CRDT._has_seen
has_seen_never(c, op) == FALSE

has_seen(c, op) ==
    \E i \in 1..Len(c.operations) : c.operations[i].id = op.id

\* CRDT._record_operation
record_operation(c, op) ==
    [c EXCEPT !.operations = Append(@, op),
              !.version_vector = VVUpdate(@, op.node_id, op.timestamp)]

\* CRDT.operations_since
\* the operations at the timestamp are returned as well
operations_since_inclusive(c, timestamp) ==
    SelectSeq(c.operations, LAMBDA op : op.timestamp >= timestamp)

operations_since(c, timestamp) ==
    SelectSeq(c.operations, LAMBDA op : op.timestamp > timestamp)

\* CRDT.all_operations
all_operations(c) == c.operations

(***************************************************************************)
(* crdt/register.py                                                        *)
(***************************************************************************)
\* Python's None
None == 0

\* The result of apply: what it returns ("true", "false") or that it raised,
\* and the replica afterwards.
Result(ret, c) == [ret |-> ret, c |-> c]

\* Python compares strings by code point: the order of the node ids in use.
StrRank(s) == CASE s = "a" -> 1 [] s = "b" -> 2 [] OTHER -> 3

str_gt(s, t) == StrRank(s) > StrRank(t)

\* TimestampedValue.__gt__
tv_gt(x, y) ==
    IF x.timestamp # y.timestamp
    THEN x.timestamp > y.timestamp
    ELSE str_gt(x.node_id, y.node_id)

\* LWWRegister.__init__
NewRegister(node_id) ==
    [kind |-> "register", node_id |-> node_id, operations |-> <<>>,
     version_vector |-> NoVector,
     current |-> [value |-> None, timestamp |-> 0, node_id |-> node_id]]

\* LWWRegister.apply
register_apply(c, op) ==
    IF has_seen(c, op) THEN Result("false", c)
    ELSE IF op.op_type # "set" THEN Result("raise", c)
    ELSE LET new_value == [value |-> op.value, timestamp |-> op.timestamp,
                           node_id |-> op.node_id]
             c1 == IF tv_gt(new_value, c.current)
                   THEN [c EXCEPT !.current = new_value]
                   ELSE c
         IN  Result("true", record_operation(c1, op))

\* LWWRegister.value
register_value(c) == c.current.value

\* LWWRegister.state
register_state(c) ==
    [value |-> c.current.value, timestamp |-> c.current.timestamp,
     node_id |-> c.current.node_id,
     operations |-> [i \in 1..Len(c.operations) |-> to_dict(c.operations[i])]]

\* LWWRegister.from_state, run when the clock reads now
register_from_state(node_id, state, now) ==
    [NewRegister(node_id) EXCEPT
        !.current = [value |-> state.value, timestamp |-> state.timestamp,
                     node_id |-> state.node_id],
        !.operations = [i \in 1..Len(state.operations) |->
                            from_dict(state.operations[i], TRUE, now)]]

(***************************************************************************)
(* crdt/map.py                                                             *)
(***************************************************************************)
\* LWWMap.__init__ (no initial value)
NewMap(node_id) ==
    [kind |-> "map", node_id |-> node_id, operations |-> <<>>,
     version_vector |-> NoVector, entries |-> <<>>, tombstones |-> <<>>]

\* LWWMap._is_newer
is_newer(ts1, node1, ts2, node2) ==
    IF ts1 # ts2 THEN ts1 > ts2 ELSE str_gt(node1, node2)

\* The scalar branch of LWWMap._apply_set and of LWWMap._flatten_set:
\* overwrite entries[path] if the incoming (timestamp, node_id) is newer.
set_entry(entries, path, val, timestamp, node_id) ==
    IF ~DictHas(entries, path)
       \/ is_newer(timestamp, node_id,
                   DictGet(entries, path).timestamp, DictGet(entries, path).node_id)
    THEN DictSet(entries, path,
                 [value |-> val, timestamp |-> timestamp, node_id |-> node_id])
    ELSE entries

\* LWWMap._flatten_set over the items of a dict value, in their order
RECURSIVE flatten_set(_, _, _, _, _)
flatten_set(entries, path, items, timestamp, node_id) ==
    IF Len(items) = 0 THEN entries
    ELSE LET key == items[1][1]
             val == items[1][2]
             current_path == Append(path, key)
             e1 == IF IsDict(val)
                   THEN flatten_set(entries, current_path, val.items, timestamp, node_id)
                   ELSE set_entry(entries, current_path, val.v, timestamp, node_id)
         IN  flatten_set(e1, path, Tail(items), timestamp, node_id)

\* LWWMap._apply_set
apply_set(c, path, value, timestamp, node_id) ==
    IF IsDict(value)
    THEN [c EXCEPT !.entries = flatten_set(@, path, value.items, timestamp, node_id)]
    ELSE [c EXCEPT !.entries = set_entry(@, path, value.v, timestamp, node_id)]

\* LWWMap._apply_delete
apply_delete(c, path, timestamp, node_id) ==
    IF ~DictHas(c.tombstones, path)
       \/ is_newer(timestamp, node_id,
                   DictGet(c.tombstones, path).timestamp,
                   DictGet(c.tombstones, path).node_id)
    THEN [c EXCEPT !.tombstones =
            DictSet(@, path, [timestamp |-> timestamp, node_id |-> node_id])]
    ELSE c

\* LWWMap.apply
map_apply(c, op) ==
    IF has_seen(c, op) THEN Result("false", c)
    ELSE IF op.op_type = "set"
    THEN Result("true",
                record_operation(
                    apply_set(c, op.path, op.value, op.timestamp, op.node_id), op))
    ELSE IF op.op_type = "delete"
    THEN Result("true",
                record_operation(apply_delete(c, op.path, op.timestamp, op.node_id), op))
    ELSE Result("raise", c)

IsPrefix(p, q) == Len(p) <= Len(q) /\ SubSeq(q, 1, Len(p)) = p

IsProperPrefix(p, q) == Len(p) < Len(q) /\ SubSeq(q, 1, Len(p)) = p

\* The tombstone test of LWWMap.value: the entry at path is skipped when a
\* tombstone at that same path has a later timestamp.
Tombstoned(c, path, ts) ==
    DictHas(c.tombstones, path) /\ DictGet(c.tombstones, path).timestamp > ts

\* One round of the loop of LWWMap.value. The nested dict under construction
\* is the set of its leaves <<path, scalar>>. Walking down path[:-1] turns a
\* scalar met on the way into a dict (its leaf goes); the final assignment
\* replaces whatever is at path, a subtree included; the empty path is skipped.
PutLeaf(leaves, path, val) ==
    IF Len(path) = 0 THEN leaves
    ELSE {l \in leaves : ~IsProperPrefix(l[1], path) /\ ~IsPrefix(path, l[1])}
         \cup {<<path, val>>}

\* LWWMap.value: the entries are visited in the insertion order of the dict
RECURSIVE ValueLoop(_, _, _)
ValueLoop(c, i, leaves) ==
    IF i > Len(c.entries) THEN leaves
    ELSE LET path == c.entries[i][1]
             e == c.entries[i][2]
         IN  IF Tombstoned(c, path, e.timestamp)
             THEN ValueLoop(c, i + 1, leaves)
             ELSE ValueLoop(c, i + 1, PutLeaf(leaves, path, e.value))

map_value(c) == ValueLoop(c, 1, {})

\* A dotted string is modelled by the sequence of its dot-free pieces. The
\* one path segment in use that itself holds a dot is "u.name".
Pieces(segment) == IF segment = "u.name" THEN <<"u", "name">> ELSE <<segment>>

\* ".".join(path)
RECURSIVE Join(_)
Join(path) == IF Len(path) = 0 THEN <<>> ELSE Pieces(path[1]) \o Join(Tail(path))

\* tuple(path_str.split(".")) if path_str else ()
Split(path_str) == path_str

\* A dict comprehension {key(k): val(v) for k, v in d.items()} with key = Join
RECURSIVE JoinKeys(_, _)
JoinKeys(d, acc) ==
    IF Len(d) = 0 THEN acc
    ELSE JoinKeys(Tail(d), DictSet(acc, Join(d[1][1]), d[1][2]))

\* The loops of LWWMap.from_state: target[Split(key)] = val for each item
RECURSIVE SplitKeys(_, _)
SplitKeys(d, acc) ==
    IF Len(d) = 0 THEN acc
    ELSE SplitKeys(Tail(d), DictSet(acc, Split(d[1][1]), d[1][2]))

\* LWWMap.state
map_state(c) ==
    [entries |-> JoinKeys(c.entries, <<>>),
     tombstones |-> JoinKeys(c.tombstones, <<>>),
     operations |-> [i \in 1..Len(c.operations) |-> to_dict(c.operations[i])]]

\* LWWMap.from_state, run when the clock reads now
map_from_state(node_id, state, now) ==
    [NewMap(node_id) EXCEPT
        !.entries = SplitKeys(state.entries, <<>>),
        !.tombstones = SplitKeys(state.tombstones, <<>>),
        !.operations = [i \in 1..Len(state.operations) |->
                            from_dict(state.operations[i], TRUE, now)]]

(***************************************************************************)
(* crdt/set.py                                                             *)
(***************************************************************************)
\* _hash_value: a 64-bit prefix of SHA-256 of the JSON text; on the few values
\* in use it is injective, and each value stands for its own hash.
hash_value(value) == value

\* ORSet.__init__
NewORSet(node_id) ==
    [kind |-> "orset", node_id |-> node_id, operations |-> <<>>,
     version_vector |-> NoVector,
     elements |-> [h \in {} |-> {}], removed_tags |-> {}]

\* The tags ORSet.remove collects: those of the value not yet removed here
observed_tags(c, value) ==
    IF hash_value(value) \in DOMAIN c.elements
    THEN {tv[1] : tv \in {x \in c.elements[hash_value(value)] :
                            x[1] \notin c.removed_tags}}
    ELSE {}

\* ORSet._apply_add
apply_add(c, op) ==
    LET value_hash == hash_value(op.value)
        had == IF value_hash \in DOMAIN c.elements THEN c.elements[value_hash] ELSE {}
    IN  [c EXCEPT !.elements =
            [h \in (DOMAIN c.elements) \cup {value_hash} |->
                IF h = value_hash THEN had \cup {<<op.id, op.value>>}
                ELSE c.elements[h]]]

\* ORSet._apply_remove
apply_remove_whole_element(c, op) ==
    [c EXCEPT !.removed_tags = @ \cup op.value.tags
                                 \cup observed_tags(c, op.value.element)]

apply_remove(c, op) ==
    [c EXCEPT !.removed_tags = @ \cup op.value.tags]

\* ORSet.apply
orset_apply(c, op) ==
    IF has_seen(c, op) THEN Result("false", c)
    ELSE IF op.op_type = "add"
    THEN Result("true", record_operation(apply_add(c, op), op))
    ELSE IF op.op_type = "remove"
    THEN Result("true", record_operation(apply_remove(c, op), op))
    ELSE Result("raise", c)

\* The last loop of the merge of ORSet, GCounter and PNCounter: record the
\* operations of the other replica that are not in the log yet
RECURSIVE RecordUnseen(_, _)
RecordUnseen(c, others) ==
    IF Len(others) = 0 THEN c
    ELSE RecordUnseen(IF has_seen(c, others[1]) THEN c
                      ELSE record_operation(c, others[1]),
                      Tail(others))

\* ORSet.merge
orset_merge(c, other) ==
    LET hashes == (DOMAIN c.elements) \cup (DOMAIN other.elements)
        el(x, h) == IF h \in DOMAIN x.elements THEN x.elements[h] ELSE {}
        c1 == [c EXCEPT !.elements = [h \in hashes |-> el(c, h) \cup el(other, h)],
                        !.removed_tags = @ \cup other.removed_tags]
    IN  RecordUnseen(c1, all_operations(other))

\* ORSet.value
orset_value(c) ==
    UNION {{tv[2] : tv \in {x \in c.elements[h] : x[1] \notin c.removed_tags}} :
            h \in DOMAIN c.elements}

\* ORSet.contains
contains(c, value) ==
    /\ hash_value(value) \in DOMAIN c.elements
    /\ \E tv \in c.elements[hash_value(value)] : tv[1] \notin c.removed_tags

\* ORSet.state
orset_state(c) ==
    [elements |-> c.elements, removed_tags |-> c.removed_tags,
     operations |-> [i \in 1..Len(c.operations) |-> to_dict(c.operations[i])]]

\* ORSet.from_state, run when the clock reads now
orset_from_state(node_id, state, now) ==
    [NewORSet(node_id) EXCEPT
        !.elements = state.elements,
        !.removed_tags = state.removed_tags,
        !.operations = [i \in 1..Len(state.operations) |->
                            from_dict(state.operations[i], TRUE, now)]]

(***************************************************************************)
(* crdt/counter.py                                                         *)
(***************************************************************************)
NoCounts == [n \in {} |-> 0]

\* dict.get(node_id, 0)
CountOf(counts, node_id) == IF node_id \in DOMAIN counts THEN counts[node_id] ELSE 0

\* counts[node_id] = current + amount
AddCount(counts, node_id, amount) ==
    [n \in (DOMAIN counts) \cup {node_id} |->
        IF n = node_id THEN CountOf(counts, node_id) + amount ELSE counts[n]]

\* The loops of GCounter.merge and PNCounter.merge: the larger count per node
MaxCounts(mine, theirs) ==
    [n \in (DOMAIN mine) \cup (DOMAIN theirs) |->
        IF n \in DOMAIN theirs
        THEN (IF CountOf(mine, n) >= theirs[n] THEN CountOf(mine, n) ELSE theirs[n])
        ELSE mine[n]]

\* sum(counts.values())
RECURSIVE SumCounts(_)
SumCounts(counts) ==
    IF DOMAIN counts = {} THEN 0
    ELSE LET n == CHOOSE x \in DOMAIN counts : TRUE
         IN  counts[n] + SumCounts([m \in (DOMAIN counts) \ {n} |-> counts[m]])

\* GCounter.__init__
NewGCounter(node_id) ==
    [kind |-> "gcounter", node_id |-> node_id, operations |-> <<>>,
     version_vector |-> NoVector, counts |-> NoCounts]

\* GCounter.apply
gcounter_apply(c, op) ==
    IF has_seen(c, op) THEN Result("false", c)
    ELSE IF op.op_type # "increment" THEN Result("raise", c)
    ELSE IF op.value < 0 THEN Result("raise", c)
    ELSE Result("true",
                record_operation(
                    [c EXCEPT !.counts = AddCount(@, op.node_id, op.value)], op))

\* GCounter.merge
gcounter_merge(c, other) ==
    RecordUnseen([c EXCEPT !.counts = MaxCounts(@, other.counts)],
                 all_operations(other))

\* GCounter.value
gcounter_value(c) == SumCounts(c.counts)

\* GCounter.state
gcounter_state(c) ==
    [counts |-> c.counts,
     operations |-> [i \in 1..Len(c.operations) |-> to_dict(c.operations[i])]]

\* GCounter.from_state, run when the clock reads now
gcounter_from_state(node_id, state, now) ==
    [NewGCounter(node_id) EXCEPT
        !.counts = state.counts,
        !.operations = [i \in 1..Len(state.operations) |->
                            from_dict(state.operations[i], TRUE, now)]]

\* PNCounter.__init__
NewPNCounter(node_id) ==
    [kind |-> "pncounter", node_id |-> node_id, operations |-> <<>>,
     version_vector |-> NoVector, positive |-> NoCounts, negative |-> NoCounts]

\* PNCounter.apply
pncounter_apply(c, op) ==
    IF has_seen(c, op) THEN Result("false", c)
    ELSE IF op.op_type = "increment"
    THEN Result("true",
                record_operation(
                    [c EXCEPT !.positive = AddCount(@, op.node_id, op.value)], op))
    ELSE IF op.op_type = "decrement"
    THEN Result("true",
                record_operation(
                    [c EXCEPT !.negative = AddCount(@, op.node_id, op.value)], op))
    ELSE Result("raise", c)

\* PNCounter.merge
pncounter_merge(c, other) ==
    RecordUnseen([c EXCEPT !.positive = MaxCounts(@, other.positive),
                           !.negative = MaxCounts(@, other.negative)],
                 all_operations(other))

\* PNCounter.value
pncounter_value(c) == SumCounts(c.positive) - SumCounts(c.negative)

\* PNCounter.state
pncounter_state(c) ==
    [positive |-> c.positive, negative |-> c.negative,
     operations |-> [i \in 1..Len(c.operations) |-> to_dict(c.operations[i])]]

\* PNCounter.from_state, run when the clock reads now
pncounter_from_state(node_id, state, now) ==
    [NewPNCounter(node_id) EXCEPT
        !.positive = state.positive,
        !.negative = state.negative,
        !.operations = [i \in 1..Len(state.operations) |->
                            from_dict(state.operations[i], TRUE, now)]]

(***************************************************************************)
(* The five CRDT types behind the interface of crdt/base.py: CRDT.apply,   *)
(* CRDT.merge, CRDT.value, StateCRDT.state and StateCRDT.from_state.       *)
(***************************************************************************)
New(k, node_id) ==
    CASE k = "register" -> NewRegister(node_id)
      [] k = "map" -> NewMap(node_id)
      [] k = "orset" -> NewORSet(node_id)
      [] k = "gcounter" -> NewGCounter(node_id)
      [] k = "pncounter" -> NewPNCounter(node_id)

apply(c, op) ==
    CASE c.kind = "register" -> register_apply(c, op)
      [] c.kind = "map" -> map_apply(c, op)
      [] c.kind = "orset" -> orset_apply(c, op)
      [] c.kind = "gcounter" -> gcounter_apply(c, op)
      [] c.kind = "pncounter" -> pncounter_apply(c, op)

\* LWWRegister.merge and LWWMap.merge: apply every operation of the other
RECURSIVE ApplyAll(_, _)
ApplyAll(c, others) ==
    IF Len(others) = 0 THEN c ELSE ApplyAll(apply(c, others[1]).c, Tail(others))

merge(c, other) ==
    CASE c.kind \in {"register", "map"} -> ApplyAll(c, all_operations(other))
      [] c.kind = "orset" -> orset_merge(c, other)
      [] c.kind = "gcounter" -> gcounter_merge(c, other)
      [] c.kind = "pncounter" -> pncounter_merge(c, other)

value(c) ==
    CASE c.kind = "register" -> register_value(c)
      [] c.kind = "map" -> map_value(c)
      [] c.kind = "orset" -> orset_value(c)
      [] c.kind = "gcounter" -> gcounter_value(c)
      [] c.kind = "pncounter" -> pncounter_value(c)

state(c) ==
    CASE c.kind = "register" -> register_state(c)
      [] c.kind = "map" -> map_state(c)
      [] c.kind = "orset" -> orset_state(c)
      [] c.kind = "gcounter" -> gcounter_state(c)
      [] c.kind = "pncounter" -> pncounter_state(c)

from_state(k, node_id, st, now) ==
    CASE k = "register" -> register_from_state(node_id, st, now)
      [] k = "map" -> map_from_state(node_id, st, now)
      [] k = "orset" -> orset_from_state(node_id, st, now)
      [] k = "gcounter" -> gcounter_from_state(node_id, st, now)
      [] k = "pncounter" -> pncounter_from_state(node_id, st, now)

(***************************************************************************)
(* Two replicas of one CRDT type. A replica creates operations through its *)
(* own methods (set, delete, add, remove, increment, decrement), receives  *)
(* the operations of the other through apply, and merges the other         *)
(* replica.                                                                *)
(***************************************************************************)
Paths == {<<"u">>, <<"u", "name">>, <<"u.name">>}

DictValues == {[tag |-> "dict", items |-> <<<<"name", Scalar(2)>>>>]}

\* Operation.create: a fresh id, the clock as timestamp
create(node_id, path, op_type, val) ==
    [id |-> Len(ops) + 1, timestamp |-> clock, node_id |-> node_id,
     path |-> path, op_type |-> op_type, value |-> val]

\* The shared tail of the methods that create an operation: apply it locally
Issue(r, op) ==
    /\ Len(ops) < (IF kind = "map" THEN MaxMapOps ELSE MaxOps)
    /\ rep' = [rep EXCEPT ![r] = apply(rep[r], op).c]
    /\ ops' = Append(ops, op)
    /\ UNCHANGED <<kind, clock>>
    /\ UNCHANGED sessionVars

\* LWWRegister.set
RegisterSet(r, v) ==
    /\ kind = "register"
    /\ Issue(r, create(rep[r].node_id, <<>>, "set", v))

\* LWWMap.set
MapSet(r, path, v) ==
    /\ kind = "map"
    /\ Issue(r, create(rep[r].node_id, path, "set", v))

\* LWWMap.delete
MapDelete(r, path) ==
    /\ kind = "map"
    /\ Issue(r, create(rep[r].node_id, path, "delete", None))

\* ORSet.add
SetAdd(r, v) ==
    /\ kind = "orset"
    /\ Issue(r, create(rep[r].node_id, <<>>, "add", v))

\* ORSet.remove
SetRemove(r, v) ==
    /\ kind = "orset"
    /\ Issue(r, create(rep[r].node_id, <<>>, "remove",
                       [element |-> v, tags |-> observed_tags(rep[r], v)]))

\* GCounter.increment and PNCounter.increment
Increment(r, amount) ==
    /\ kind \in {"gcounter", "pncounter"}
    /\ amount >= 0
    /\ Issue(r, create(rep[r].node_id, <<>>, "increment", amount))

\* PNCounter.decrement
Decrement(r, amount) ==
    /\ kind = "pncounter"
    /\ amount >= 0
    /\ Issue(r, create(rep[r].node_id, <<>>, "decrement", amount))

\* CRDT.apply of an operation created earlier, a duplicate included
Apply(r, i) ==
    /\ rep' = [rep EXCEPT ![r] = apply(rep[r], ops[i]).c]
    /\ UNCHANGED <<kind, ops, clock>>
    /\ UNCHANGED sessionVars

\* CRDT.merge
Merge(r, s) ==
    /\ r # s
    /\ rep' = [rep EXCEPT ![r] = merge(rep[r], rep[s])]
    /\ UNCHANGED <<kind, ops, clock>>
    /\ UNCHANGED sessionVars

\* time passes
Tick ==
    /\ clock < MaxClock
    /\ clock' = clock + 1
    /\ UNCHANGED <<kind, rep, ops>>
    /\ UNCHANGED sessionVars

CrdtInit ==
    /\ kind \in Kinds
    /\ rep = [r \in Replicas |-> New(kind, r)]
    /\ ops = <<>>
    /\ clock = 1

CrdtNext ==
    \/ \E r \in Replicas, v \in Scalars : RegisterSet(r, v)
    \/ \E r \in Replicas, path \in Paths, v \in Scalars : MapSet(r, path, Scalar(v))
    \/ \E r \in Replicas, v \in DictValues : MapSet(r, <<"u">>, v)
    \/ \E r \in Replicas, path \in Paths : MapDelete(r, path)
    \/ \E r \in Replicas, v \in Scalars : SetAdd(r, v)
    \/ \E r \in Replicas, v \in Scalars : SetRemove(r, v)
    \/ \E r \in Replicas, amount \in Scalars : Increment(r, amount)
    \/ \E r \in Replicas, amount \in Scalars : Decrement(r, amount)
    \/ \E r \in Replicas, i \in 1..Len(ops) : Apply(r, i)
    \/ \E r \in Replicas, s \in Replicas : Merge(r, s)
    \/ Tick

(***************************************************************************)
(* server.py and room.py: the session layer.  A channel is one WebSocket   *)
(* object; a handler runs to completion as one step, except where Validate *)
(* and Commit split it at the await of the auth provider.  The server is   *)
(* constructed with an auth provider and without permission manager or    *)
(* storage backend; require_auth, allow_anonymous and auto_create_rooms    *)
(* have the defaults of __init__ (False, False, True) except under         *)
(* SpecJoin, which takes every setting of the first two, and SpecReject,   *)
(* which takes both settings of the third.                                 *)
(***************************************************************************)
MaxRoomOps == 2
MaxSessionFailures == 1
MaxFailures == 6
MaxFrames == 6
MaxRateClock == 4

Channels == {"c1", "c2", "c3", "c4"}

\* the channels of the runs with two clients
PairChannels == {"c1", "c2"}
Rooms == {"r1"}
AuthUsers == {"A", "B"}

\* _handle_join: the anonymous user made for a channel without a user.  A
\* channel has at most one in its life, so the random id is told by the channel.
AnonUser(c) == "anon-" \o c

\* every user a channel can be bound to
Users == AuthUsers \cup {AnonUser(c) : c \in Channels}
NoUser == "none"
NoChannel == ""
NoToken == ""
Tokens == {"tA", "tB", "bad"}
ClientTimestamps == {0, 9}

\* the cap on the channels of one user, as passed to __init__
max_connections_per_user == 2

\* AuthProvider.validate_token: the user of a token, NoUser for an invalid one
validate_token(token) ==
    CASE token = "tA" -> "A"
      [] token = "tB" -> "B"
      [] OTHER -> NoUser

\* the channels whose socket is open: a send to any other channel raises
Alive == {c \in Channels : conn[c] = "open"}

\* dict.pop(k, None) on an ordered dict
DictPop(d, k) == SelectSeq(d, LAMBDA e : e[1] # k)

NoOperation == [id |-> 0]

\* Room.__init__: the state of a room is an LWW-Map of its own node
NewRoomState(room_id) == NewMap(room_id)

\* One message on the wire.  ws is the channel it is written to, bound the
\* user that _ws_users holds for that channel when it is written, and
\* exclude_user the exclusion of the broadcast that carried it.
Message(type, room_id, user_id, operation) ==
    [ws |-> "", type |-> type, code |-> "", room_id |-> room_id,
     user_id |-> user_id, exclude_user |-> NoUser, bound |-> NoUser,
     operation |-> operation]

\* CollabkitServer._send_error
send_error(ws, code) ==
    [Message("error", "", NoUser, NoOperation) EXCEPT
        !.ws = ws, !.code = code, !.bound = ws_users[ws]]

\* websocket.send_json of a reply to the sender
send_json(ws, user_id, msg) ==
    [msg EXCEPT !.ws = ws, !.bound = user_id]

\* a broadcast that leaves the members whose send raised in the room
broadcast_keeps_failed(conns, msg, exclude_user, alive, users) ==
    LET to == SelectSeq(conns, LAMBDA e : e[1] # exclude_user)
        ok == SelectSeq(to, LAMBDA e : e[2] \in alive)
    IN  [sent |-> [i \in 1..Len(ok) |->
                    [msg EXCEPT !.ws = ok[i][2], !.exclude_user = exclude_user,
                                !.bound = users[ok[i][2]]]],
         connections |-> conns]

\* Room.broadcast: every member but exclude_user is written to through the
\* channel stored for it; members whose send raised are removed afterwards.
broadcast(conns, msg, exclude_user, alive, users) ==
    LET to == SelectSeq(conns, LAMBDA e : e[1] # exclude_user)
        ok == SelectSeq(to, LAMBDA e : e[2] \in alive)
        failed_users == {to[i][1] : i \in {j \in 1..Len(to) : to[j][2] \notin alive}}
    IN  [sent |-> [i \in 1..Len(ok) |->
                    [msg EXCEPT !.ws = ok[i][2], !.exclude_user = exclude_user,
                                !.bound = users[ok[i][2]]]],
         connections |-> SelectSeq(conns, LAMBDA e : e[1] \notin failed_users)]

\* the rate of the message bucket, in frames a second, as passed to __init__
rate_limit == 4

\* server.py: MAX_AUTH_ATTEMPTS and AUTH_LOCKOUT_SECONDS
MAX_AUTH_ATTEMPTS == 5
AUTH_LOCKOUT_SECONDS == 300

\* the clock counts ticks; this many make one second
TicksPerSecond == 4

\* a channel that is not a key of _lockout_until or of _last_update
NoTime == -1

\* server.py: DEFAULT_MESSAGE_TIMEOUT, in seconds
message_timeout == 60

\* A bucket holds a fraction of a token; the model counts the tokens in
\* parts, TicksPerSecond parts to the token, so that a tick fills rate_limit
\* parts and no arithmetic is rounded.
FullBucket == rate_limit * TicksPerSecond

\* the RateLimiter as one value
Bucket == [tokens |-> tokens, last_update |-> last_update]

\* RateLimiter.is_allowed: the answer, and the limiter after the call.  The
\* first call of a channel makes its _last_update entry from the clock.
is_allowed(bucket, ws_id, now) ==
    LET last == IF bucket.last_update[ws_id] = NoTime
                    THEN now ELSE bucket.last_update[ws_id]
        elapsed == now - last
        sum == bucket.tokens[ws_id] + elapsed * rate_limit
        filled == IF sum < FullBucket THEN sum ELSE FullBucket
        allowed == filled >= TicksPerSecond
    IN  [allowed |-> allowed,
         limiter |-> [tokens |-> [bucket.tokens EXCEPT ![ws_id] =
                                    IF allowed THEN filled - TicksPerSecond
                                               ELSE filled],
                      last_update |-> [bucket.last_update EXCEPT ![ws_id] = now]]]

\* RateLimiter.cleanup
cleanup(bucket, ws_id) ==
    [tokens |-> [bucket.tokens EXCEPT ![ws_id] = FullBucket],
     last_update |-> [bucket.last_update EXCEPT ![ws_id] = NoTime]]

\* a channel none of whose handlers waits to take the lock
NoPending == [type |-> "", room_id |-> "", user |-> NoUser]

\* a receive loop that reads on while a handler runs
idle_always(c) == TRUE

\* _handle_connection awaits _handle_message inside its loop: the next frame
\* is read, and the finally block is run, only when no handler of the channel
\* is in progress
idle(c) == pending[c] = NoPending

\* the AuthRateLimiter as one value
AuthLimiter == [attempts |-> auth_attempts, lockout_until |-> lockout_until]

\* AuthRateLimiter.is_allowed: the answer, and the limiter after the call
\* (a lockout that ran out is deleted and the count starts again)
auth_is_allowed(limiter, ws_id, now) ==
    IF limiter.lockout_until[ws_id] # NoTime /\ now < limiter.lockout_until[ws_id]
    THEN [allowed |-> FALSE, limiter |-> limiter]
    ELSE LET after == IF limiter.lockout_until[ws_id] # NoTime
                      THEN [attempts |-> [limiter.attempts EXCEPT ![ws_id] = 0],
                            lockout_until |->
                                [limiter.lockout_until EXCEPT ![ws_id] = NoTime]]
                      ELSE limiter
         IN  [allowed |-> after.attempts[ws_id] < MAX_AUTH_ATTEMPTS,
              limiter |-> after]

\* a limiter that forgets the failures
record_failure_forgets(limiter, ws_id, now) == limiter

\* AuthRateLimiter.record_failure
record_failure(limiter, ws_id, now) ==
    LET count == limiter.attempts[ws_id] + 1
    IN  [attempts |-> [limiter.attempts EXCEPT ![ws_id] = count],
         lockout_until |->
            IF count >= MAX_AUTH_ATTEMPTS
            THEN [limiter.lockout_until EXCEPT
                     ![ws_id] = now + AUTH_LOCKOUT_SECONDS * TicksPerSecond]
            ELSE limiter.lockout_until]

\* AuthRateLimiter.record_success, and AuthRateLimiter.cleanup
record_success(limiter, ws_id) ==
    [attempts |-> [limiter.attempts EXCEPT ![ws_id] = 0],
     lockout_until |-> [limiter.lockout_until EXCEPT ![ws_id] = NoTime]]

\* The limiter around one token validation of channel c: gate is the result
\* of is_allowed, user the result of validate_token.  A refused attempt does
\* not reach the provider.
AuthAttempt(c, gate, user) ==
    LET after == IF ~gate.allowed THEN gate.limiter
                 ELSE IF user = NoUser
                 THEN record_failure(gate.limiter, c, clock)
                 ELSE record_success(gate.limiter, c)
    IN  /\ auth_attempts' = after.attempts
        /\ lockout_until' = after.lockout_until
        /\ failures' = IF ~gate.allowed THEN failures
                       ELSE IF user = NoUser
                       THEN [failures EXCEPT ![c] = Append(@, clock)]
                       ELSE [failures EXCEPT ![c] = <<>>]

\* a handler that only answers: nothing of the server changes
Reply(msgs) ==
    /\ sent' = msgs
    /\ UNCHANGED <<conn, ws_users, ws_rooms, user_connections, rooms,
                   connections, room_state, twin_state, presence,
                   screen_sharers>>

\* _handle_connection up to the receive loop: accept the socket
Connect(c) ==
    /\ conn[c] = "idle"
    /\ UNCHANGED <<crdtVars, configVars, taskVars, presenceVars>>
    /\ UNCHANGED <<screen_sharers, authVars, rateVars>>
    /\ handled' = [ws |-> c, type |-> "connect", room_id |-> "", token |-> NoToken,
                   flag |-> FALSE]
    /\ conn' = [conn EXCEPT ![c] = "open"]
    /\ ws_rooms' = [ws_rooms EXCEPT ![c] = {}]
    /\ sent' = <<>>
    /\ UNCHANGED <<ws_users, user_connections, rooms, connections,
                   room_state, twin_state, presence>>

\* CollabkitServer._handle_auth
\* no user is ever at the cap
at_connection_cap_never(user) == FALSE

\* _handle_auth and _handle_join: the check of the connection limit
at_connection_cap(user) ==
    Cardinality(user_connections[user]) >= max_connections_per_user

\* _handle_auth once the token is validated: under the lock, the check of the
\* connection limit and the binding of the channel, then the answer
AuthCommit(c, user) ==
    IF at_connection_cap(user)
    THEN Reply(<<send_error(c, "RATE_LIMITED")>>)
    ELSE /\ ws_users' = [ws_users EXCEPT ![c] = user]
         /\ user_connections' =
                [user_connections EXCEPT ![user] = @ \cup {c}]
         /\ sent' = <<send_json(c, user,
                        Message("authenticated", "", user, NoOperation))>>
         /\ UNCHANGED <<conn, ws_rooms, rooms, connections, room_state,
                        twin_state, presence>>

\* _handle_join once the user is settled: under the lock the check of the
\* connection limit and the binding of the channel, then the room
EnterRoom(c, room_id, user) ==
    IF at_connection_cap(user)
    THEN Reply(<<send_error(c, "RATE_LIMITED")>>)
    ELSE IF room_id \notin rooms /\ ~auto_create_rooms
    THEN /\ ws_users' = [ws_users EXCEPT ![c] = user]
         /\ user_connections' =
                [user_connections EXCEPT ![user] = @ \cup {c}]
         /\ sent' = <<send_error(c, "ROOM_NOT_FOUND")>>
         /\ UNCHANGED <<conn, ws_rooms, rooms, connections, room_state,
                        twin_state, presence>>
    ELSE LET users == [ws_users EXCEPT ![c] = user]
             conns == DictSet(connections[room_id], user, c)
             b == broadcast(conns,
                            Message("user_joined", room_id, user, NoOperation),
                            user, Alive, users)
         IN  /\ ws_users' = users
             /\ user_connections' =
                    [user_connections EXCEPT ![user] = @ \cup {c}]
             /\ rooms' = rooms \cup {room_id}
             /\ room_state' =
                    IF room_id \in rooms THEN room_state
                    ELSE [room_state EXCEPT ![room_id] = NewRoomState(room_id)]
             /\ twin_state' =
                    IF room_id \in rooms THEN twin_state
                    ELSE [twin_state EXCEPT ![room_id] = NewRoomState(room_id)]
             /\ connections' = [connections EXCEPT ![room_id] = b.connections]
             /\ ws_rooms' = [ws_rooms EXCEPT ![c] = @ \cup {room_id}]
             /\ presence' = [presence EXCEPT ![room_id] = @ \cup {user}]
             /\ sent' = <<send_json(c, user,
                            Message("joined", room_id, user, NoOperation))>>
                        \o b.sent
             /\ UNCHANGED conn

\* a join that asks for no authorization
JoinCommit_unchecked(c, room_id, user) ==
    EnterRoom(c, room_id, IF user = NoUser THEN AnonUser(c) ELSE user)

\* _handle_join once the token is validated: the authorization checks
JoinCommit(c, room_id, user) ==
    IF require_auth /\ user \notin AuthUsers
    THEN Reply(<<send_error(c, "AUTHENTICATION_FAILED")>>)
    ELSE IF user = NoUser /\ ~allow_anonymous
    THEN Reply(<<send_error(c, "AUTHENTICATION_FAILED")>>)
    ELSE EnterRoom(c, room_id, IF user = NoUser THEN AnonUser(c) ELSE user)

\* CollabkitServer._handle_auth
HandleAuth(c, token) ==
    /\ conn[c] = "open"
    /\ UNCHANGED <<crdtVars, configVars, taskVars, presenceVars>>
    /\ UNCHANGED <<screen_sharers, rateVars>>
    /\ LET gate == auth_is_allowed(AuthLimiter, c, clock)
           user == validate_token(token)
       IN  /\ handled' = [ws |-> c, type |-> "auth", room_id |-> "",
                          token |-> token, flag |-> gate.allowed]
           /\ AuthAttempt(c, gate, user)
           /\  IF ~gate.allowed
               THEN Reply(<<send_error(c, "RATE_LIMITED")>>)
               ELSE IF user = NoUser
               THEN Reply(<<send_error(c, "AUTHENTICATION_FAILED")>>)
               ELSE AuthCommit(c, user)

\* CollabkitServer._handle_join, with RoomManager.create_room, Room.add_user
\* and PresenceManager.join_room
HandleJoin(c, room_id, token) ==
    /\ conn[c] = "open"
    /\ UNCHANGED <<crdtVars, configVars, taskVars, presenceVars>>
    /\ UNCHANGED <<screen_sharers, rateVars>>
    /\ LET gate == auth_is_allowed(AuthLimiter, c, clock)
           auth_user == validate_token(token)
           user == IF token # NoToken THEN auth_user ELSE ws_users[c]
       IN  /\ IF token # NoToken THEN AuthAttempt(c, gate, auth_user)
              ELSE UNCHANGED authVars
           /\  IF token # NoToken /\ ~gate.allowed
               THEN Reply(<<send_error(c, "RATE_LIMITED")>>)
               ELSE IF token # NoToken /\ auth_user = NoUser
               THEN Reply(<<send_error(c, "AUTHENTICATION_FAILED")>>)
               ELSE JoinCommit(c, room_id, user)
           /\ handled' = [ws |-> c, type |-> "join", room_id |-> room_id,
                          token |-> token,
                          flag |-> token # NoToken /\ gate.allowed,
                          evicted |-> DictKeys(connections[room_id])
                                        \ DictKeys(connections'[room_id])]

\* CollabkitServer._leave_room without the last step on _ws_rooms, with
\* Room.remove_user and PresenceManager.leave_room.  acc carries the room
\* members, the presence and the messages written so far.
leave_room(acc, room_id, user_id, alive, users) ==
    IF room_id \notin rooms THEN acc
    ELSE LET conns == DictPop(acc.connections[room_id], user_id)
             b == broadcast(conns,
                            Message("user_left", room_id, user_id, NoOperation),
                            NoUser, alive, users)
         IN  [acc EXCEPT !.connections[room_id] = b.connections,
                         !.presence[room_id] = @ \ {user_id},
                         !.sent = @ \o b.sent]

\* _cleanup_connection, for one room of the channel: a user that is the
\* screen sharer of the room stops sharing, and the room is told
release_share_never(acc, room_id, user_id, alive, users) == acc

\* _cleanup_connection: the share of the closing user in room_id is released
release_share(acc, room_id, user_id, alive, users) ==
    IF acc.screen_sharers[room_id] # user_id THEN acc
    ELSE IF room_id \notin rooms
    THEN [acc EXCEPT !.screen_sharers[room_id] = NoUser]
    ELSE LET b == broadcast(acc.connections[room_id],
                            Message("screenshare_stopped", room_id, user_id,
                                    NoOperation),
                            NoUser, alive, users)
         IN  [acc EXCEPT !.screen_sharers[room_id] = NoUser,
                         !.connections[room_id] = b.connections,
                         !.sent = @ \o b.sent]

\* the loop of _cleanup_connection over the rooms of the channel
RECURSIVE leave_rooms(_, _, _, _, _)
leave_rooms(todo, acc, user_id, alive, users) ==
    IF todo = {} THEN acc
    ELSE LET room_id == CHOOSE r \in todo : TRUE
         IN  leave_rooms(todo \ {room_id},
                         leave_room(release_share(acc, room_id, user_id,
                                                  alive, users),
                                    room_id, user_id, alive, users),
                         user_id, alive, users)

\* CollabkitServer._handle_leave
HandleLeave(c, room_id) ==
    /\ conn[c] = "open"
    /\ UNCHANGED <<crdtVars, configVars, taskVars, presenceVars>>
    /\ UNCHANGED <<screen_sharers, authVars, rateVars>>
    /\ handled' = [ws |-> c, type |-> "leave", room_id |-> room_id,
                   token |-> NoToken, flag |-> FALSE]
    /\ LET user == ws_users[c]
           left == leave_room([connections |-> connections, presence |-> presence,
                               screen_sharers |-> screen_sharers, sent |-> <<>>],
                              room_id, user, Alive, ws_users)
       IN  IF user = NoUser THEN Reply(<<>>)
           ELSE /\ connections' = left.connections
                /\ presence' = left.presence
                /\ sent' = left.sent
                /\ ws_rooms' = [ws_rooms EXCEPT ![c] = @ \ {room_id}]
                /\ UNCHANGED <<conn, ws_users, user_connections, rooms,
                               room_state, twin_state>>

\* CollabkitServer._handle_operation, with Room.apply_operation and
\* RoomManager.broadcast_operation.  data is the operation of the message and
\* timestamp the timestamp the client put in it; the twin room is given the
\* same message with the timestamp twin_timestamp.
HandleOperation(c, room_id, data, timestamp, twin_timestamp) ==
    /\ conn[c] = "open"
    /\ UNCHANGED <<crdtVars, configVars, taskVars, presenceVars>>
    /\ UNCHANGED <<screen_sharers, authVars, rateVars>>
    /\ Len(room_state[room_id].operations) < MaxRoomOps
    /\ timestamp # twin_timestamp
    /\ LET user == ws_users[c]
       IN  IF user = NoUser
           THEN Reply(<<send_error(c, "AUTHENTICATION_FAILED")>>)
           ELSE IF room_id \notin rooms
           THEN Reply(<<send_error(c, "ROOM_NOT_FOUND")>>)
           ELSE LET operation ==
                        from_dict([data EXCEPT !.timestamp = timestamp], TRUE, clock)
                    applied == map_apply(room_state[room_id], operation)
                    twin == map_apply(twin_state[room_id],
                                from_dict([data EXCEPT !.timestamp = twin_timestamp],
                                          TRUE, clock))
                    b == broadcast(connections[room_id],
                                   Message("operation", room_id, user,
                                           to_dict(operation)),
                                   user, Alive, ws_users)
                IN  IF applied.ret = "raise"
                    THEN Reply(<<send_error(c, "INVALID_OPERATION")>>)
                    ELSE IF applied.ret = "false"
                    THEN Reply(<<>>)
                    ELSE /\ room_state' = [room_state EXCEPT ![room_id] = applied.c]
                         /\ twin_state' = [twin_state EXCEPT ![room_id] = twin.c]
                         /\ connections' =
                                [connections EXCEPT ![room_id] = b.connections]
                         /\ sent' = b.sent
                         /\ UNCHANGED <<conn, ws_users, ws_rooms,
                                        user_connections, rooms, presence>>
    /\ handled' = [ws |-> c, type |-> "operation", room_id |-> room_id,
                   token |-> NoToken,
                   flag |-> Len(room_state'[room_id].operations)
                                > Len(room_state[room_id].operations)]

\* The functions registered on the server before any room is made, so that
\* every room has a copy: one open to every member, one with requires_auth.
functions == [open |-> [requires_auth |-> FALSE],
              guarded |-> [requires_auth |-> TRUE]]

\* the function names a client asks for, one of them not registered
FunctionNames == {"open", "guarded", "missing"}
CallIds == {"k1", "k2"}

\* What a registered function does when it is called: it returns a value
\* that JSON can encode, returns one that JSON cannot (a set, an object),
\* runs longer than function_timeout, or raises.
Outcomes == {"returns", "returns_unencodable", "timeout", "raises"}

\* the value a registered function returns
ReturnValue == 7

\* CallResultMessage, as written to channel ws
CallResult(ws, call_id, success, result, error) ==
    [call_id |-> call_id, success |-> success, result |-> result,
     error |-> error]
        @@ send_json(ws, ws_users[ws], Message("call_result", "", NoUser, NoOperation))

\* a call that asks no authentication of the caller
call_refusal_no_auth(user, user_rooms, room_id, function_name) ==
    IF room_id \notin user_rooms THEN "Must join room before calling functions."
    ELSE IF room_id \notin rooms THEN "Room '" \o room_id \o "' not found."
    ELSE IF function_name \notin DOMAIN functions
    THEN "Function '" \o function_name \o "' not found."
    ELSE ""

\* _handle_call: the error of the call_result that refuses the call, or ""
\* when the function is to be called
call_refusal(user, user_rooms, room_id, function_name) ==
    IF room_id \notin user_rooms THEN "Must join room before calling functions."
    ELSE IF room_id \notin rooms THEN "Room '" \o room_id \o "' not found."
    ELSE IF function_name \notin DOMAIN functions
    THEN "Function '" \o function_name \o "' not found."
    ELSE IF functions[function_name].requires_auth /\ user \notin AuthUsers
    THEN "Authentication required."
    ELSE ""

\* CollabkitServer._handle_call with Room.call_function.  A result that JSON
\* cannot encode makes send_json raise outside the try block: the exception
\* reaches _handle_connection, which sends internal_error and leaves the
\* receive loop for its finally block.
HandleCall(c, room_id, call_id, function_name, outcome) ==
    /\ conn[c] = "open"
    /\ loop[c] # "finally"
    /\ UNCHANGED <<crdtVars, configVars, taskVars, presenceVars>>
    /\ UNCHANGED <<authVars, tokens, last_update, inbox, refused, dispatched,
                   passes, pending>>
    /\ LET refusal == call_refusal(ws_users[c], ws_rooms[c], room_id, function_name)
       IN  /\ handled' = [ws |-> c, type |-> "call", room_id |-> room_id,
                          token |-> NoToken, flag |-> refusal = "",
                          call_id |-> call_id, function_name |-> function_name,
                          outcome |-> outcome]
           /\ loop' = IF refusal = "" /\ outcome = "returns_unencodable"
                          THEN [loop EXCEPT ![c] = "finally"] ELSE loop
           /\ Reply(<<IF refusal # ""
                          THEN CallResult(c, call_id, FALSE, None, refusal)
                      ELSE IF outcome = "returns"
                          THEN CallResult(c, call_id, TRUE, ReturnValue, "")
                      ELSE IF outcome = "timeout"
                          THEN CallResult(c, call_id, FALSE, None,
                                          "Function execution timeout.")
                      ELSE IF outcome = "raises"
                          THEN CallResult(c, call_id, FALSE, None,
                                          "Function execution failed.")
                      ELSE send_error(c, "INTERNAL_ERROR")>>)

\* CollabkitServer._handle_presence, with PresenceManager.update_presence and
\* CollabkitServer._broadcast_presence; the presence data is left out
HandlePresence(c, room_id) ==
    /\ conn[c] = "open"
    /\ UNCHANGED <<crdtVars, configVars, taskVars, presenceVars>>
    /\ UNCHANGED <<screen_sharers, authVars, rateVars>>
    /\ handled' = [ws |-> c, type |-> "presence", room_id |-> room_id,
                   token |-> NoToken, flag |-> FALSE]
    /\ LET user == ws_users[c]
           b == broadcast(connections[room_id],
                          Message("presence", room_id, user, NoOperation),
                          user, Alive, ws_users)
       IN  IF user = NoUser THEN Reply(<<>>)
           ELSE IF room_id \notin ws_rooms[c]
           THEN Reply(<<send_error(c, "PERMISSION_DENIED")>>)
           ELSE IF user \notin presence[room_id] \/ room_id \notin rooms
           THEN Reply(<<>>)
           ELSE /\ connections' = [connections EXCEPT ![room_id] = b.connections]
                /\ sent' = b.sent
                /\ UNCHANGED <<conn, ws_users, ws_rooms, user_connections,
                               rooms, room_state, twin_state, presence>>

\* protocol.py SyncMessage, written to the sender
SyncMessage(ws, room_id, state_value, operations) ==
    [state |-> state_value, operations |-> operations]
        @@ send_json(ws, ws_users[ws], Message("sync", room_id, NoUser, NoOperation))

\* CollabkitServer._handle_sync_request, with Room.get_operations_since
HandleSyncRequest(c, room_id, since_timestamp) ==
    /\ conn[c] = "open"
    /\ UNCHANGED <<crdtVars, configVars, taskVars, presenceVars>>
    /\ UNCHANGED <<screen_sharers, authVars, rateVars>>
    /\ handled' = [ws |-> c, type |-> "sync_request", room_id |-> room_id,
                   token |-> NoToken, flag |-> room_id \in ws_rooms[c],
                   since_timestamp |-> since_timestamp]
    /\ LET user == ws_users[c]
           operations == operations_since(room_state[room_id], since_timestamp)
       IN  IF user = NoUser
           THEN Reply(<<send_error(c, "AUTHENTICATION_FAILED")>>)
           ELSE IF room_id \notin ws_rooms[c]
           THEN Reply(<<send_error(c, "PERMISSION_DENIED")>>)
           ELSE IF room_id \notin rooms
           THEN Reply(<<send_error(c, "ROOM_NOT_FOUND")>>)
           ELSE Reply(<<SyncMessage(c, room_id, map_value(room_state[room_id]),
                            [i \in 1..Len(operations) |-> to_dict(operations[i])])>>)

\* a start that any member may make, whoever shares
start_refusal_no_contention(user, user_rooms, room_id) ==
    IF user = NoUser THEN "AUTHENTICATION_FAILED"
    ELSE IF room_id \notin user_rooms THEN "PERMISSION_DENIED"
    ELSE ""

\* _handle_screenshare_start: the error code that answers the message, or ""
\* when the start is accepted
start_refusal(user, user_rooms, room_id) ==
    IF user = NoUser THEN "AUTHENTICATION_FAILED"
    ELSE IF room_id \notin user_rooms THEN "PERMISSION_DENIED"
    ELSE IF screen_sharers[room_id] # NoUser /\ screen_sharers[room_id] # user
    THEN "PERMISSION_DENIED"
    ELSE ""

\* a stop that any authenticated user may make
may_stop_any(user, room_id) ==
    user # NoUser /\ screen_sharers[room_id] # NoUser

\* _handle_screenshare_stop: only the current sharer can stop
may_stop(user, room_id) ==
    user # NoUser /\ screen_sharers[room_id] = user

\* _handle_auth and _handle_join with a token, up to the return of
\* validate_token: the handler awaits the provider, and handlers of other
\* channels run before it goes on.  room_id is "" for an auth message.
Validate(c, type, room_id, token) ==
    /\ conn[c] = "open"
    /\ idle(c)
    /\ UNCHANGED <<crdtVars, configVars, taskVars, presenceVars>>
    /\ UNCHANGED <<tokens, last_update, loop, inbox, refused, dispatched, passes>>
    /\ LET gate == auth_is_allowed(AuthLimiter, c, clock)
           user == validate_token(token)
       IN  /\ handled' = [ws |-> c, type |-> type, room_id |-> room_id,
                          token |-> token, flag |-> gate.allowed]
           /\ AuthAttempt(c, gate, user)
           /\ IF ~gate.allowed
                  THEN /\ Reply(<<send_error(c, "RATE_LIMITED")>>)
                       /\ UNCHANGED pending
                  ELSE IF user = NoUser
                  THEN /\ Reply(<<send_error(c, "AUTHENTICATION_FAILED")>>)
                       /\ UNCHANGED pending
                  ELSE /\ Reply(<<>>)
                       /\ pending' = [pending EXCEPT ![c] =
                                        [type |-> type, room_id |-> room_id,
                                         user |-> user]]

\* the handler that waited goes on: the rest of _handle_auth or of
\* _handle_join
Commit(c) ==
    /\ conn[c] = "open"
    /\ pending[c] # NoPending
    /\ UNCHANGED <<crdtVars, configVars, taskVars, presenceVars>>
    /\ UNCHANGED <<screen_sharers, authVars>>
    /\ UNCHANGED <<tokens, last_update, loop, inbox, refused, dispatched, passes>>
    /\ pending' = [pending EXCEPT ![c] = NoPending]
    /\ handled' = [ws |-> c, type |-> pending[c].type,
                   room_id |-> pending[c].room_id, token |-> NoToken,
                   flag |-> TRUE]
    /\ IF pending[c].type = "auth"
          THEN AuthCommit(c, pending[c].user)
          ELSE JoinCommit(c, pending[c].room_id, pending[c].user)

\* CollabkitServer._handle_screenshare_start
HandleScreenshareStart(c, room_id) ==
    /\ conn[c] = "open"
    /\ UNCHANGED <<crdtVars, configVars, taskVars, presenceVars>>
    /\ UNCHANGED <<authVars, rateVars>>
    /\ LET user == ws_users[c]
           user_rooms == ws_rooms[c]
           b == broadcast(connections[room_id],
                          Message("screenshare_started", room_id, user, NoOperation),
                          NoUser, Alive, ws_users)
           refusal == start_refusal(user, user_rooms, room_id)
       IN  /\ handled' = [ws |-> c, type |-> "screenshare_start",
                          room_id |-> room_id, token |-> NoToken,
                          flag |-> refusal = ""]
           /\ IF refusal # "" THEN Reply(<<send_error(c, refusal)>>)
              ELSE /\ screen_sharers' = [screen_sharers EXCEPT ![room_id] = user]
                   /\ IF room_id \in rooms
                          THEN /\ sent' = b.sent
                               /\ connections' = [connections EXCEPT
                                                    ![room_id] = b.connections]
                          ELSE /\ sent' = <<>>
                               /\ UNCHANGED connections
                   /\ UNCHANGED <<conn, ws_users, ws_rooms, user_connections,
                                  rooms, room_state, twin_state, presence>>

\* CollabkitServer._handle_screenshare_stop
HandleScreenshareStop(c, room_id) ==
    /\ conn[c] = "open"
    /\ UNCHANGED <<crdtVars, configVars, taskVars, presenceVars>>
    /\ UNCHANGED <<authVars, rateVars>>
    /\ LET user == ws_users[c]
           b == broadcast(connections[room_id],
                          Message("screenshare_stopped", room_id, user, NoOperation),
                          NoUser, Alive, ws_users)
           stops == may_stop(user, room_id)
       IN  /\ handled' = [ws |-> c, type |-> "screenshare_stop",
                          room_id |-> room_id, token |-> NoToken,
                          flag |-> stops]
           /\ IF ~stops THEN Reply(<<>>)
              ELSE /\ screen_sharers' = [screen_sharers EXCEPT ![room_id] = NoUser]
                   /\ IF room_id \in rooms
                          THEN /\ sent' = b.sent
                               /\ connections' = [connections EXCEPT
                                                    ![room_id] = b.connections]
                          ELSE /\ sent' = <<>>
                               /\ UNCHANGED connections
                   /\ UNCHANGED <<conn, ws_users, ws_rooms, user_connections,
                                  rooms, room_state, twin_state, presence>>

\* The socket closes: the finally block of _handle_connection, that is
\* CollabkitServer._cleanup_connection
Disconnect(c) ==
    /\ conn[c] = "open"
    /\ idle(c)
    /\ UNCHANGED <<crdtVars, configVars, taskVars, presenceVars>>
    /\ UNCHANGED <<failures, inbox, refused, dispatched, passes, pending>>
    /\ handled' = [ws |-> c, type |-> "disconnect", room_id |-> "",
                   token |-> NoToken, flag |-> FALSE]
    /\ LET user == ws_users[c]
           users == [ws_users EXCEPT ![c] = NoUser]
           left == leave_rooms(ws_rooms[c],
                               [connections |-> connections,
                                presence |-> presence,
                                screen_sharers |-> screen_sharers,
                                sent |-> <<>>],
                               user, Alive \ {c}, users)
           limiter == record_success(AuthLimiter, c)
       IN  /\ conn' = [conn EXCEPT ![c] = "closed"]
           /\ tokens' = cleanup(Bucket, c).tokens
           /\ last_update' = cleanup(Bucket, c).last_update
           /\ loop' = [loop EXCEPT ![c] = "done"]
           /\ auth_attempts' = limiter.attempts
           /\ lockout_until' = limiter.lockout_until
           /\ ws_users' = users
           /\ ws_rooms' = [ws_rooms EXCEPT ![c] = {}]
           /\ IF user = NoUser
              THEN /\ sent' = <<>>
                   /\ UNCHANGED <<user_connections, connections, presence,
                                  screen_sharers>>
              ELSE /\ user_connections' =
                          [user_connections EXCEPT ![user] = @ \ {c}]
                   /\ connections' = left.connections
                   /\ presence' = left.presence
                   /\ screen_sharers' = left.screen_sharers
                   /\ sent' = left.sent
           /\ UNCHANGED <<rooms, room_state, twin_state>>

\* the operations a client can put in an operation message
OperationData ==
    {[id |-> i, timestamp |-> 0, node_id |-> n, path |-> <<"u">>,
      op_type |-> t, value |-> IF t = "set" THEN Scalar(i) ELSE None] :
        i \in 1..MaxRoomOps, n \in {"a"}, t \in {"set", "increment"}}

\* the state of a server just made, whatever its options
SessionInit ==
    /\ conn = [c \in Channels |-> "idle"]
    /\ ws_users = [c \in Channels |-> NoUser]
    /\ ws_rooms = [c \in Channels |-> {}]
    /\ user_connections = [u \in Users |-> {}]
    /\ rooms = {}
    /\ connections = [r \in Rooms |-> <<>>]
    /\ room_state = [r \in Rooms |-> NewRoomState(r)]
    /\ twin_state = [r \in Rooms |-> NewRoomState(r)]
    /\ presence = [r \in Rooms |-> {}]
    /\ sent = <<>>
    /\ handled = [ws |-> "", type |-> "", room_id |-> "", token |-> NoToken,
                 flag |-> FALSE]
    /\ screen_sharers = [r \in Rooms |-> NoUser]
    /\ auth_attempts = [c \in Channels |-> 0]
    /\ lockout_until = [c \in Channels |-> NoTime]
    /\ failures = [c \in Channels |-> <<>>]
    /\ tokens = [c \in Channels |-> FullBucket]
    /\ last_update = [c \in Channels |-> NoTime]
    /\ loop = [c \in Channels |-> "gate"]
    /\ inbox = [c \in Channels |-> <<>>]
    /\ refused = [c \in Channels |-> {}]
    /\ dispatched = [c \in Channels |-> {}]
    /\ passes = [c \in Channels |-> <<>>]
    /\ pending = [c \in Channels |-> NoPending]
    /\ ws_lock = NoChannel
    /\ room_lock = [r \in Rooms |-> NoChannel]
    /\ at = [c \in Channels |-> "idle"]
    /\ event_loop = [ready |-> <<>>, waiters |-> [r \in Rooms |-> <<>>]]
    /\ presence_rooms = [r \in {} |-> 0]

\* CollabkitServer.__init__ with the default options
ServerInit ==
    /\ SessionInit
    /\ require_auth = FALSE
    /\ allow_anonymous = FALSE
    /\ auto_create_rooms = TRUE

\* the tokens the provider accepts
ValidTokens == {token \in Tokens : validate_token(token) # NoUser}

\* Rooms and their operations: clients that hold valid tokens connect,
\* authenticate, join, send operations and disconnect, and time passes.
ServerNext ==
    \/ \E c \in PairChannels : Connect(c)
    \/ \E c \in PairChannels, token \in ValidTokens : HandleAuth(c, token)
    \/ \E c \in PairChannels, r \in Rooms, token \in ValidTokens \cup {NoToken} :
            HandleJoin(c, r, token)
    \/ \E c \in PairChannels, r \in Rooms, data \in OperationData,
          timestamp \in ClientTimestamps, twin_timestamp \in ClientTimestamps :
            HandleOperation(c, r, data, timestamp, twin_timestamp)
    \/ \E c \in PairChannels : Disconnect(c)
    \/ Tick

\* Sessions and membership: any token, at most MaxSessionFailures failed
\* validations in a row on one channel; no operations, and the clock stands.
SessionNext ==
    \/ \E c \in PairChannels : Connect(c)
    \/ \E c \in PairChannels, token \in Tokens :
            /\ token \notin ValidTokens => Len(failures[c]) < MaxSessionFailures
            /\ HandleAuth(c, token)
    \/ \E c \in PairChannels, r \in Rooms, token \in Tokens \cup {NoToken} :
            /\ token \notin ValidTokens \cup {NoToken}
                    => Len(failures[c]) < MaxSessionFailures
            /\ HandleJoin(c, r, token)
    \/ \E c \in PairChannels, r \in Rooms : HandleLeave(c, r)
    \/ \E c \in PairChannels, r \in Rooms : HandlePresence(c, r)
    \/ \E c \in PairChannels : Disconnect(c)

(***************************************************************************)
(* The specifications: the CRDT engine alone, and the server alone.        *)
(***************************************************************************)
CrdtSpecInit == CrdtInit /\ ServerInit

SpecCrdt == CrdtSpecInit /\ [][CrdtNext]_vars

ServerSpecInit == CrdtInit /\ kind = "map" /\ ServerInit

SpecServer == ServerSpecInit /\ [][ServerNext]_vars

SpecSession == ServerSpecInit /\ [][SessionNext]_vars

\* a client writes a frame, a ping, to its socket; frames are numbered
ClientSend(c) ==
    /\ conn[c] = "open"
    /\ Len(inbox[c]) + Cardinality(dispatched[c]) < MaxFrames
    /\ inbox' = [inbox EXCEPT ![c] =
                    Append(@, Len(@) + Cardinality(dispatched[c]) + 1)]
    /\ UNCHANGED <<crdtVars, configVars, taskVars, presenceVars>>
    /\ UNCHANGED <<serverVars, authVars>>
    /\ UNCHANGED <<tokens, last_update, loop, refused, dispatched, passes,
                   pending>>

\* _handle_connection, the head of the loop: the rate limiter is asked before
\* a frame is read.  A refusal is answered with an error and the loop starts
\* again; the frames that wait in the socket meanwhile are noted in refused.
Gate(c) ==
    /\ conn[c] = "open"
    /\ loop[c] = "gate"
    /\ UNCHANGED <<crdtVars, configVars, taskVars, presenceVars>>
    /\ UNCHANGED <<authVars, inbox, dispatched, pending>>
    /\ LET gate == is_allowed(Bucket, c, clock)
       IN  /\ tokens' = gate.limiter.tokens
           /\ last_update' = gate.limiter.last_update
           /\ IF gate.allowed
                  THEN /\ loop' = [loop EXCEPT ![c] = "recv"]
                       /\ passes' = [passes EXCEPT ![c] = Append(@, clock)]
                       /\ UNCHANGED <<serverVars, refused>>
                  ELSE /\ refused' = [refused EXCEPT ![c] =
                                        @ \cup {inbox[c][i] : i \in 1..Len(inbox[c])}]
                       /\ Reply(<<send_error(c, "RATE_LIMITED")>>)
                       /\ UNCHANGED <<handled, loop, passes>>

\* _handle_connection, receive_text returns a frame: it is parsed and
\* dispatched, here to _handle_ping, which answers with a pong
Receive(c) ==
    /\ conn[c] = "open"
    /\ loop[c] = "recv"
    /\ inbox[c] # <<>>
    /\ UNCHANGED <<crdtVars, configVars, taskVars, presenceVars>>
    /\ UNCHANGED <<authVars, tokens, last_update, refused, passes, pending>>
    /\ inbox' = [inbox EXCEPT ![c] = Tail(@)]
    /\ dispatched' = [dispatched EXCEPT ![c] = @ \cup {Head(inbox[c])}]
    /\ loop' = [loop EXCEPT ![c] = "gate"]
    /\ handled' = [ws |-> c, type |-> "ping", room_id |-> "", token |-> NoToken,
                   flag |-> FALSE]
    /\ Reply(<<send_json(c, ws_users[c], Message("pong", "", NoUser, NoOperation))>>)

\* _handle_connection, receive_text times out: no frame came for
\* message_timeout seconds, the server sends a ping and the loop starts again
Timeout(c) ==
    /\ conn[c] = "open"
    /\ loop[c] = "recv"
    /\ inbox[c] = <<>>
    /\ clock < MaxRateClock
    /\ clock' = clock + message_timeout * TicksPerSecond
    /\ UNCHANGED <<kind, rep, ops>>
    /\ UNCHANGED <<authVars, tokens, last_update, inbox, refused, dispatched,
                   passes, pending, handled, configVars, taskVars,
                   presenceVars>>
    /\ loop' = [loop EXCEPT ![c] = "gate"]
    /\ Reply(<<send_json(c, ws_users[c], Message("ping", "", NoUser, NoOperation))>>)

\* time passes while the loop of a connection runs
RateTick ==
    /\ clock < MaxRateClock
    /\ clock' = clock + 1
    /\ UNCHANGED <<kind, rep, ops>>
    /\ UNCHANGED sessionVars

\* The receive loop of one connection: the client writes up to MaxFrames
\* frames at any speed.
RateChannels == {"c1"}

RateNext ==
    \/ \E c \in RateChannels : Connect(c)
    \/ \E c \in RateChannels : ClientSend(c)
    \/ \E c \in RateChannels : Gate(c)
    \/ \E c \in RateChannels : Receive(c)
    \/ \E c \in RateChannels : Timeout(c)
    \/ \E c \in RateChannels : Disconnect(c)
    \/ RateTick

SpecRate == ServerSpecInit /\ [][RateNext]_vars

\* Screen sharing: channels authenticate, join, leave, start and stop a
\* share, and close.
ShareNext ==
    \/ \E c \in PairChannels : Connect(c)
    \/ \E c \in PairChannels, token \in ValidTokens : HandleAuth(c, token)
    \/ \E c \in PairChannels, r \in Rooms, token \in ValidTokens \cup {NoToken} :
            HandleJoin(c, r, token)
    \/ \E c \in PairChannels, r \in Rooms : HandleLeave(c, r)
    \/ \E c \in PairChannels, r \in Rooms : HandleScreenshareStart(c, r)
    \/ \E c \in PairChannels, r \in Rooms : HandleScreenshareStop(c, r)
    \/ \E c \in PairChannels : Disconnect(c)

SpecShare == ServerSpecInit /\ [][ShareNext]_vars

\* The connection limit: three channels authenticate and join with tokens,
\* and the handlers of different channels interleave where they await the
\* provider.  The joins carry the token of one user.
CapJoinTokens == {"tA"}
CapChannels == {"c1", "c2", "c3"}

CapNext ==
    \/ \E c \in CapChannels : Connect(c)
    \/ \E c \in CapChannels, token \in ValidTokens : Validate(c, "auth", "", token)
    \/ \E c \in CapChannels, r \in Rooms, token \in CapJoinTokens :
            Validate(c, "join", r, token)
    \/ \E c \in CapChannels : Commit(c)
    \/ \E c \in CapChannels : Disconnect(c)

SpecCap == ServerSpecInit /\ [][CapNext]_vars

\* Joining under every setting of the two options: channels authenticate,
\* join with and without a token, leave and close, and may fail up to
\* MaxFailures validations.
JoinChannels == {"c1"}

JoinNext ==
    \/ \E c \in JoinChannels : Connect(c)
    \/ \E c \in JoinChannels, token \in Tokens :
            /\ token \notin ValidTokens => Len(failures[c]) < MaxFailures
            /\ HandleAuth(c, token)
    \/ \E c \in JoinChannels, r \in Rooms, token \in Tokens \cup {NoToken} :
            /\ token \notin ValidTokens \cup {NoToken} =>
                    Len(failures[c]) < MaxFailures
            /\ HandleJoin(c, r, token)
    \/ \E c \in JoinChannels, r \in Rooms : HandleLeave(c, r)
    \/ \E c \in JoinChannels : Disconnect(c)

JoinSpecInit ==
    /\ CrdtInit
    /\ kind = "map"
    /\ SessionInit
    /\ require_auth \in BOOLEAN
    /\ allow_anonymous \in BOOLEAN
    /\ auto_create_rooms = TRUE

SpecJoin == JoinSpecInit /\ [][JoinNext]_vars

\* Function calls, under every setting of the two options: a channel joins
\* with a token or without, calls functions and leaves.  Once an exception
\* has left the receive loop only the finally block runs.
CallChannels == {"c1"}

CallNext ==
    \/ \E c \in CallChannels : Connect(c)
    \/ \E c \in CallChannels, r \in Rooms, token \in {"tA", NoToken} :
            loop[c] # "finally" /\ HandleJoin(c, r, token)
    \/ \E c \in CallChannels, r \in Rooms :
            loop[c] # "finally" /\ HandleLeave(c, r)
    \/ \E c \in CallChannels, r \in Rooms, call_id \in CallIds,
          function_name \in FunctionNames, outcome \in Outcomes :
            HandleCall(c, r, call_id, function_name, outcome)
    \/ \E c \in CallChannels : Disconnect(c)

SpecCall == JoinSpecInit /\ [][CallNext]_vars

(***************************************************************************)
(* _handle_auth and _handle_join await by await.  A handler runs from one  *)
(* await that suspends it to the next: taking a lock that nobody holds     *)
(* does not suspend, a send does, and so does the gather of Room.broadcast *)
(* when there is somebody to send to.  pending[c] holds the locals of the  *)
(* handler of c, and at[c] the await at which it stands.                   *)
(***************************************************************************)
\* asyncio.Lock wakes its waiters in order, and a task that was woken runs
\* before the tasks that an end of I/O wakes later: while a released lock has
\* a waiter, the waiter is the next to run.
Woken ==
    \/ \E c \in Channels : at[c] = "added" /\ ws_lock = NoChannel
    \/ \E c \in Channels :
            at[c] = "add_user" /\ room_lock[pending[c].room_id] = NoChannel

\* the frame a step of the handler of c works on
Step(c) ==
    [ws |-> c, type |-> pending[c].type, room_id |-> pending[c].room_id,
     token |-> NoToken, flag |-> TRUE]

\* the handler of c returns, and the receive loop may read the next frame
Return(c) ==
    /\ pending' = [pending EXCEPT ![c] = NoPending]
    /\ at' = [at EXCEPT ![c] = "idle"]

\* the handler of c is suspended at an await
Await(c, where) ==
    /\ at' = [at EXCEPT ![c] = where]
    /\ UNCHANGED pending

\* _handle_join from Room.add_user on, once Room._lock is taken: the member
\* is stored; then _ws_lock is taken, or waited for if another handler holds
\* it; under it the room is added to _ws_rooms, then PresenceManager.join_room
\* and the joined response, in whose send the handler is suspended
add_user(c, room_id, user) ==
    /\ connections' = [connections EXCEPT ![room_id] = DictSet(@, user, c)]
    /\ IF ws_lock # NoChannel
       THEN /\ Await(c, "added")
            /\ sent' = <<>>
            /\ UNCHANGED <<ws_rooms, presence>>
       ELSE /\ Await(c, "joined")
            /\ ws_rooms' = [ws_rooms EXCEPT ![c] = @ \cup {room_id}]
            /\ presence' = [presence EXCEPT ![room_id] = @ \cup {user}]
            /\ sent' = <<send_json(c, user,
                            Message("joined", room_id, user, NoOperation))>>

\* _handle_auth and _handle_join from the return of validate_token to the
\* next await that suspends.  The check of the connection limit answers
\* inside the block of _ws_lock: the handler is suspended in the send of the
\* error with the lock held.
Bind(c) ==
    /\ conn[c] = "open"
    /\ pending[c] # NoPending
    /\ at[c] = "idle"
    /\ ws_lock = NoChannel
    /\ ~Woken
    /\ UNCHANGED <<crdtVars, configVars, presenceVars, event_loop>>
    /\ UNCHANGED <<screen_sharers, authVars>>
    /\ UNCHANGED <<tokens, last_update, loop, inbox, refused, dispatched, passes>>
    /\ handled' = Step(c)
    /\ LET user == pending[c].user
           room_id == pending[c].room_id
       IN  IF pending[c].type = "join" /\ require_auth /\ user \notin AuthUsers
           THEN /\ Reply(<<send_error(c, "AUTHENTICATION_FAILED")>>)
                /\ Return(c)
                /\ UNCHANGED <<ws_lock, room_lock>>
           ELSE IF at_connection_cap(user)
           THEN /\ Reply(<<send_error(c, "RATE_LIMITED")>>)
                /\ ws_lock' = c
                /\ Await(c, "cap_reply")
                /\ UNCHANGED room_lock
           ELSE /\ ws_users' = [ws_users EXCEPT ![c] = user]
                /\ user_connections' =
                        [user_connections EXCEPT ![user] = @ \cup {c}]
                /\ UNCHANGED <<conn, twin_state, ws_lock, room_lock>>
                /\ IF pending[c].type = "auth"
                   THEN /\ sent' = <<send_json(c, user,
                                Message("authenticated", "", user, NoOperation))>>
                        /\ Return(c)
                        /\ UNCHANGED <<ws_rooms, rooms, connections, room_state,
                                       presence>>
                   ELSE IF room_id \notin rooms /\ ~auto_create_rooms
                   THEN /\ sent' = <<send_error(c, "ROOM_NOT_FOUND")>>
                        /\ Return(c)
                        /\ UNCHANGED <<ws_rooms, rooms, connections, room_state,
                                       presence>>
                   ELSE /\ rooms' = rooms \cup {room_id}
                        /\ room_state' =
                            IF room_id \in rooms THEN room_state
                            ELSE [room_state EXCEPT
                                    ![room_id] = NewRoomState(room_id)]
                        /\ IF room_lock[room_id] # NoChannel
                           THEN /\ Await(c, "add_user")
                                /\ sent' = <<>>
                                /\ UNCHANGED <<ws_rooms, connections, presence>>
                           ELSE add_user(c, room_id, user)

\* the handler that waited for Room._lock in Room.add_user goes on
AddUser(c) ==
    /\ at[c] = "add_user"
    /\ room_lock[pending[c].room_id] = NoChannel
    /\ UNCHANGED <<crdtVars, configVars, presenceVars, event_loop>>
    /\ UNCHANGED <<screen_sharers, authVars>>
    /\ UNCHANGED <<tokens, last_update, loop, inbox, refused, dispatched, passes>>
    /\ UNCHANGED <<conn, ws_users, user_connections, rooms, room_state,
                   twin_state, ws_lock, room_lock>>
    /\ handled' = Step(c)
    /\ add_user(c, pending[c].room_id, pending[c].user)

\* the handler that waited for _ws_lock after Room.add_user goes on, up to
\* the send of the joined response
Enter(c) ==
    /\ at[c] = "added"
    /\ ws_lock = NoChannel
    /\ UNCHANGED <<crdtVars, configVars, presenceVars, event_loop>>
    /\ UNCHANGED <<screen_sharers, authVars>>
    /\ UNCHANGED <<tokens, last_update, loop, inbox, refused, dispatched, passes>>
    /\ UNCHANGED <<conn, ws_users, user_connections, rooms, connections,
                   room_state, twin_state, ws_lock, room_lock>>
    /\ handled' = Step(c)
    /\ Await(c, "joined")
    /\ ws_rooms' = [ws_rooms EXCEPT ![c] = @ \cup {pending[c].room_id}]
    /\ presence' = [presence EXCEPT ![pending[c].room_id] = @ \cup {pending[c].user}]
    /\ sent' = <<send_json(c, pending[c].user,
                    Message("joined", pending[c].room_id, pending[c].user,
                            NoOperation))>>

\* the send of the joined response is over: Room.broadcast of user_joined
\* takes Room._lock and starts the sends; the handler waits in gather with
\* the lock held, unless there is nobody to send to
Announce(c) ==
    /\ at[c] = "joined"
    /\ room_lock[pending[c].room_id] = NoChannel
    /\ ~Woken
    /\ UNCHANGED <<crdtVars, configVars, presenceVars, event_loop>>
    /\ UNCHANGED <<screen_sharers, authVars>>
    /\ UNCHANGED <<tokens, last_update, loop, inbox, refused, dispatched, passes>>
    /\ UNCHANGED <<conn, ws_users, ws_rooms, user_connections, rooms,
                   connections, room_state, twin_state, presence, ws_lock>>
    /\ handled' = Step(c)
    /\ LET user == pending[c].user
           room_id == pending[c].room_id
           b == broadcast(connections[room_id],
                          Message("user_joined", room_id, user, NoOperation),
                          user, Alive, ws_users)
       IN  /\ sent' = b.sent
           /\ IF \A i \in 1..Len(connections[room_id]) :
                        connections[room_id][i][1] = user
              THEN /\ Return(c)
                   /\ UNCHANGED room_lock
              ELSE /\ Await(c, "broadcast")
                   /\ room_lock' = [room_lock EXCEPT ![room_id] = c]

\* the sends of Room.broadcast are over: Room._lock is released, the members
\* whose send raised are removed, and the handler returns
BroadcastDone(c) ==
    /\ at[c] = "broadcast"
    /\ ~Woken
    /\ UNCHANGED <<crdtVars, configVars, presenceVars, event_loop>>
    /\ UNCHANGED <<screen_sharers, authVars>>
    /\ UNCHANGED <<tokens, last_update, loop, inbox, refused, dispatched, passes>>
    /\ UNCHANGED <<conn, ws_users, ws_rooms, user_connections, rooms,
                   room_state, twin_state, presence, ws_lock>>
    /\ handled' = Step(c)
    /\ LET user == pending[c].user
           room_id == pending[c].room_id
           b == broadcast(connections[room_id],
                          Message("user_joined", room_id, user, NoOperation),
                          user, Alive, ws_users)
       IN  connections' = [connections EXCEPT ![room_id] = b.connections]
    /\ sent' = <<>>
    /\ room_lock' = [room_lock EXCEPT ![pending[c].room_id] = NoChannel]
    /\ Return(c)

\* the send of the error of the connection limit is over: the handler
\* leaves the block of _ws_lock and returns
CapReplyDone(c) ==
    /\ at[c] = "cap_reply"
    /\ ~Woken
    /\ UNCHANGED <<crdtVars, configVars, presenceVars, event_loop>>
    /\ UNCHANGED <<screen_sharers, authVars>>
    /\ UNCHANGED <<tokens, last_update, loop, inbox, refused, dispatched, passes>>
    /\ handled' = Step(c)
    /\ Reply(<<>>)
    /\ ws_lock' = NoChannel
    /\ UNCHANGED room_lock
    /\ Return(c)

\* The frames a client can send that are no message of the protocol.  A frame
\* is the text it carries: text that is no JSON, JSON that is no object (an
\* array, a number), or an object with the type and the fields named.
Frames ==
    {[json |-> "invalid", type |-> "", fields |-> ""],
     [json |-> "array", type |-> "", fields |-> ""]}
    \cup [json : {"object"}, type : {"bogus"}, fields : {"valid"}]
    \cup [json : {"object"}, type : {"operation"},
          fields : {"missing", "oversize", "dangerous_path"}]

\* protocol.py: the keys of type_map in parse_client_message
type_map == {"join", "leave", "operation", "sync_request", "call", "presence",
             "ping", "auth", "state_update", "screenshare_start",
             "screenshare_stop", "rtc_offer", "rtc_answer", "rtc_ice_candidate",
             "remote_control_request", "remote_control_response"}

\* json.loads: the exception it raises, "" when it returns the data
json_loads(raw_data) ==
    IF raw_data.json = "invalid" THEN "JSONDecodeError" ELSE ""

\* parse_client_message: the exception it raises, "" when it returns a
\* message.  data.get("type") is an attribute of a dict: a list or a number
\* has none.  The model class raises ValidationError from the Field bounds
\* and the validators.
parse_client_message(data) ==
    IF data.json # "object" THEN "AttributeError"
    ELSE IF data.type \notin type_map THEN "ValueError"
    ELSE IF data.fields # "valid" THEN "ValidationError"
    ELSE ""

\* _handle_connection from the frame received on, with _handle_message, for
\* a frame of Frames.  An exception that _handle_message does not catch
\* reaches _handle_connection, which sends internal_error and leaves the
\* receive loop for its finally block.
HandleFrame(c, raw_data) ==
    /\ conn[c] = "open"
    /\ loop[c] # "finally"
    /\ UNCHANGED <<crdtVars, configVars, taskVars, presenceVars>>
    /\ UNCHANGED <<authVars, tokens, last_update, inbox, refused, dispatched,
                   passes, pending>>
    /\ handled' = [ws |-> c, type |-> "frame", room_id |-> "",
                   token |-> NoToken, flag |-> FALSE, frame |-> raw_data]
    /\ LET raised == IF json_loads(raw_data) # "" THEN json_loads(raw_data)
                     ELSE parse_client_message(raw_data)
       IN  IF raised \in {"JSONDecodeError", "ValueError", "ValidationError"}
           THEN /\ Reply(<<send_error(c, "INVALID_MESSAGE")>>)
                /\ UNCHANGED loop
           ELSE /\ Reply(<<send_error(c, "INTERNAL_ERROR")>>)
                /\ loop' = [loop EXCEPT ![c] = "finally"]

\* Frames that are no message: channels join, with a token or bound by an
\* auth message, send such frames and close.  Once an exception has left
\* the receive loop only the finally block runs.
FrameNext ==
    \/ \E c \in PairChannels : Connect(c)
    \/ \E c \in PairChannels, token \in {"tA", "tB"} :
            loop[c] # "finally" /\ HandleAuth(c, token)
    \/ \E c \in PairChannels, r \in Rooms, token \in {"tA", NoToken} :
            loop[c] # "finally" /\ HandleJoin(c, r, token)
    \/ \E c \in PairChannels, raw_data \in Frames : HandleFrame(c, raw_data)
    \/ \E c \in PairChannels : Disconnect(c)

SpecFrame == ServerSpecInit /\ [][FrameNext]_vars

\* Members whose channel is gone: anonymous users are allowed; one client
\* changes its user between its join and its leave and closes, which leaves
\* its first user in the room, and two more clients join, leave and close.
EvictInit ==
    /\ CrdtInit
    /\ kind = "map"
    /\ SessionInit
    /\ require_auth = FALSE
    /\ allow_anonymous = TRUE
    /\ auto_create_rooms = TRUE

EvictNext ==
    \/ \E c \in CapChannels : Connect(c)
    \/ \E c \in {"c1"}, token \in ValidTokens : HandleAuth(c, token)
    \/ \E c \in CapChannels, r \in Rooms :
            HandleJoin(c, r, IF c = "c3" THEN "tB" ELSE NoToken)
    \/ \E c \in CapChannels, r \in Rooms : HandleLeave(c, r)
    \/ \E c \in CapChannels : Disconnect(c)

SpecEvict == EvictInit /\ [][EvictNext]_vars

\* the token each client holds
TokenOf(c) == IF c \in {"c1", "c2"} THEN "tA" ELSE "tB"

\* Late joiners: clients authenticate, join, send operations and ask for
\* the operations since a time, and time passes.
SinceTimestamps == 0..MaxClock

SyncNext ==
    \/ \E c \in PairChannels : Connect(c)
    \/ \E c \in {"c2"} : HandleAuth(c, "tB")
    \/ \E c \in PairChannels, r \in Rooms : HandleJoin(c, r, TokenOf(c))
    \/ \E c \in PairChannels, r \in Rooms, data \in OperationData,
          timestamp \in ClientTimestamps, twin_timestamp \in ClientTimestamps :
            HandleOperation(c, r, data, timestamp, twin_timestamp)
    \/ \E c \in PairChannels, r \in Rooms, since_timestamp \in SinceTimestamps :
            HandleSyncRequest(c, r, since_timestamp)
    \/ Tick

SpecSync == ServerSpecInit /\ [][SyncNext]_vars

\* Handlers that interleave at their awaits: clients connect, authenticate
\* and join, each with its own token.  _handle_join first reads _ws_users
\* under _ws_lock.
TaskNext ==
    \/ \E c \in Channels : Connect(c)
    \/ \E c \in {"c1"} :
            ~Woken /\ Validate(c, "auth", "", TokenOf(c))
    \/ \E c \in Channels, r \in Rooms :
            ~Woken /\ ws_lock = NoChannel /\ Validate(c, "join", r, TokenOf(c))
    \/ \E c \in Channels : Bind(c)
    \/ \E c \in Channels : AddUser(c)
    \/ \E c \in Channels : Enter(c)
    \/ \E c \in Channels : Announce(c)
    \/ \E c \in Channels : BroadcastDone(c)
    \/ \E c \in Channels : CapReplyDone(c)

SpecTask == ServerSpecInit /\ [][TaskNext]_vars

\* a client stays silent for some seconds
Sleep(seconds) ==
    /\ clock <= MaxClock
    /\ clock' = clock + seconds * TicksPerSecond
    /\ UNCHANGED <<kind, rep, ops>>
    /\ UNCHANGED sessionVars

\* The auth lockout: one channel tries tokens, in auth and in join messages,
\* up to MaxFailures failed validations, and waits just less than, or all of,
\* the lockout time.
LockoutChannels == {"c1"}

AuthNext ==
    \/ \E c \in LockoutChannels : Connect(c)
    \/ \E c \in LockoutChannels, token \in Tokens :
            /\ token \notin ValidTokens => Len(failures[c]) < MaxFailures
            /\ HandleAuth(c, token)
    \/ \E c \in LockoutChannels, r \in Rooms, token \in Tokens :
            /\ token \notin ValidTokens => Len(failures[c]) < MaxFailures
            /\ HandleJoin(c, r, token)
    \/ \E seconds \in {AUTH_LOCKOUT_SECONDS - 1, AUTH_LOCKOUT_SECONDS} :
            Sleep(seconds)
    \/ Tick

SpecAuth == ServerSpecInit /\ [][AuthNext]_vars

(***************************************************************************)
(* The PresenceManager alone (presence.py): users join and leave presence  *)
(* rooms, update their presence, and the cleanup task sweeps.  A dict is a *)
(* function on its keys.                                                   *)
(***************************************************************************)
\* presence.py: the default of stale_timeout, in seconds
stale_timeout == 60

\* d[k] = v on a dict
Put(d, k, v) == [x \in DOMAIN d \cup {k} |-> IF x = k THEN v ELSE d[x]]

\* d.pop(k, None) on a dict
Pop(d, k) == [x \in DOMAIN d \ {k} |-> d[x]]

NoPresence == [u \in {} |-> 0]

\* a sweep that finds nothing stale
is_stale_never(last_updated, now) == FALSE

\* _cleanup_stale: pd.last_updated < stale_threshold
is_stale(last_updated, now) ==
    last_updated < now - stale_timeout * TicksPerSecond

\* _cleanup_stale on one room: RoomPresence.remove_user of every stale user
remove_stale(users, now) ==
    [u \in {v \in DOMAIN users : ~is_stale(users[v], now)} |-> users[u]]

\* _cleanup_stale on _rooms: every room is swept, and deleted if it is empty
cleanup_stale(room_table, now) ==
    LET swept == [r \in DOMAIN room_table |-> remove_stale(room_table[r], now)]
    IN  [r \in {q \in DOMAIN swept : DOMAIN swept[q] # {}} |-> swept[r]]

\* what a method of the PresenceManager leaves alone
PresenceFrame(type, room_id, flag) ==
    /\ UNCHANGED <<crdtVars, configVars, taskVars, authVars, rateVars>>
    /\ UNCHANGED <<conn, ws_users, ws_rooms, user_connections, rooms,
                   connections, room_state, twin_state, presence, sent,
                   screen_sharers>>
    /\ handled' = [ws |-> "", type |-> type, room_id |-> room_id,
                   token |-> NoToken, flag |-> flag]

\* PresenceManager.join_room, with RoomPresence.add_user
join_room(room_id, user) ==
    /\ LET users == IF room_id \in DOMAIN presence_rooms
                        THEN presence_rooms[room_id] ELSE NoPresence
       IN  presence_rooms' = Put(presence_rooms, room_id, Put(users, user, clock))
    /\ PresenceFrame("join_room", room_id, TRUE)

\* PresenceManager.leave_room, with RoomPresence.remove_user
PresenceLeaveRoom(room_id, user_id) ==
    /\ IF room_id \notin DOMAIN presence_rooms
       THEN UNCHANGED presence_rooms
       ELSE LET users == Pop(presence_rooms[room_id], user_id)
            IN  presence_rooms' =
                    IF DOMAIN users = {} THEN Pop(presence_rooms, room_id)
                    ELSE Put(presence_rooms, room_id, users)
    /\ PresenceFrame("leave_room", room_id, room_id \in DOMAIN presence_rooms)

\* PresenceManager.update_presence, with RoomPresence.update_presence and
\* PresenceData.update; no broadcast callback is set
update_presence(room_id, user_id) ==
    /\ LET found == /\ room_id \in DOMAIN presence_rooms
                    /\ user_id \in DOMAIN presence_rooms[room_id]
       IN  /\ presence_rooms' =
                IF found
                THEN Put(presence_rooms, room_id,
                         Put(presence_rooms[room_id], user_id, clock))
                ELSE presence_rooms
           /\ PresenceFrame("update_presence", room_id, found)

\* PresenceManager._cleanup_stale: one sweep of the cleanup task
CleanupStale ==
    /\ presence_rooms' = cleanup_stale(presence_rooms, clock)
    /\ PresenceFrame("cleanup_stale", "", presence_rooms' # presence_rooms)

PresenceRooms == {"r1", "r2"}

PresenceNext ==
    \/ \E r \in PresenceRooms, u \in AuthUsers : join_room(r, u)
    \/ \E r \in PresenceRooms, u \in AuthUsers : PresenceLeaveRoom(r, u)
    \/ \E r \in PresenceRooms, u \in AuthUsers : update_presence(r, u)
    \/ CleanupStale
    \/ Sleep(stale_timeout)
    \/ Tick

SpecPresence == ServerSpecInit /\ [][PresenceNext]_vars

(***************************************************************************)
(* Properties of the CRDT engine, checked under SpecCrdt.                  *)
(***************************************************************************)
\* the ids of the operations in the log of c
OpIds(c) == {c.operations[i].id : i \in 1..Len(c.operations)}

\* c is what applying its own log, in order, to a fresh replica gives
Pure(c) == c = ApplyAll(New(c.kind, c.node_id), c.operations)

\* the leaf that value() shows at exactly this path, if any
LeafAt(c, path) == {l \in map_value(c) : l[1] = path}

\* C1. LWW determinism: two fresh LWW-Maps that applied the same operations
\* (distinct ids), each in its own order, have equal value(); operations on a
\* path and on a descendant of it, and operations with equal timestamps, are
\* among them.
C1_LWWDeterminism ==
    kind = "map" =>
        \A r, s \in Replicas :
            (Pure(rep[r]) /\ Pure(rep[s]) /\ OpIds(rep[r]) = OpIds(rep[s]))
                => value(rep[r]) = value(rep[s])

\* C2. Apply idempotence: for each of the five CRDT types, apply of an
\* operation whose id is already in the log of the replica returns false and
\* leaves value(), the internal state, the log and the version vector as
\* they were. The operation may differ from the logged one in its timestamp.
C2_ApplyIdempotent ==
    \A r \in Replicas, i \in 1..Len(ops) :
        (\E j \in 1..Len(rep[r].operations) : rep[r].operations[j].id = ops[i].id)
            => \A o \in {ops[i], [ops[i] EXCEPT !.timestamp = @ + 1]} :
                /\ apply(rep[r], o).ret = "false"
                /\ apply(rep[r], o).c = rep[r]
                /\ value(apply(rep[r], o).c) = value(rep[r])

\* A replica holds an operation that the other replica created: the same
\* operation can reach it again.
C2_Witness ==
    \E r \in Replicas, i \in 1..Len(ops) :
        /\ ops[i].id \in OpIds(rep[r])
        /\ ops[i].node_id # rep[r].node_id
        /\ Len(rep[r].operations) >= 2

\* C3. Merge commutativity: two replicas of one type that started equal and
\* each applied its own sequence of operations: the value of a after
\* a.merge(b) equals the value of b after b.merge(a).
C3_MergeCommutes ==
    \A r, s \in Replicas :
        (r # s /\ Pure(rep[r]) /\ Pure(rep[s]))
            => value(merge(rep[r], rep[s])) = value(merge(rep[s], rep[r]))

\* the add operations of value v whose tag no remove operation carries
UnremovedAdds(v) ==
    {i \in 1..Len(ops) :
        /\ ops[i].op_type = "add"
        /\ ops[i].value = v
        /\ \A j \in 1..Len(ops) :
              ops[j].op_type = "remove" => ops[i].id \notin ops[j].value.tags}

\* the tags carried by the remove operations in the log of c
CarriedTags(c) ==
    UNION {c.operations[i].value.tags :
            i \in {j \in 1..Len(c.operations) : c.operations[j].op_type = "remove"}}

\* C4. OR-Set add-wins: when some add of v has a tag that no remove carries
\* (the remover had not observed it), every replica that has received every
\* operation, by apply or by merge in any order, has v in value() and
\* contains(v); a remove hides only the tags it carries.
C4_AddWins ==
    kind = "orset" =>
        \A r \in Replicas :
            /\ rep[r].removed_tags \subseteq CarriedTags(rep[r])
            /\ \A v \in Scalars :
                  (UnremovedAdds(v) # {} /\ OpIds(rep[r]) = 1..Len(ops))
                      => (v \in value(rep[r]) /\ contains(rep[r], v))

\* A remove of v that carries an observed tag, an add of v it did not
\* observe, and both replicas hold every operation.
C4_Witness ==
    /\ kind = "orset"
    /\ \E v \in Scalars :
          /\ UnremovedAdds(v) # {}
          /\ \E j \in 1..Len(ops) :
                /\ ops[j].op_type = "remove"
                /\ ops[j].value.element = v
                /\ ops[j].value.tags # {}
    /\ \A r \in Replicas : OpIds(rep[r]) = 1..Len(ops)

\* (timestamp, origin) of operation x is greater than that of operation y
PairGreater(x, y) ==
    \/ x.timestamp > y.timestamp
    \/ x.timestamp = y.timestamp /\ StrRank(x.node_id) > StrRank(y.node_id)

\* C5. LWW-Register ordering: after any sequence of set operations with
\* distinct ids, value() is the value of the operation with the greatest
\* (timestamp, origin), timestamps first and origin strings second, whatever
\* the order of application: replicas that applied the same operations agree.
C5_GreatestWins ==
    kind = "register" =>
        /\ \A r \in Replicas : \A i \in OpIds(rep[r]) :
              (Pure(rep[r]) /\ \A j \in OpIds(rep[r]) \ {i} : PairGreater(ops[i], ops[j]))
                  => value(rep[r]) = ops[i].value
        /\ \A r, s \in Replicas :
              (Pure(rep[r]) /\ Pure(rep[s]) /\ OpIds(rep[r]) = OpIds(rep[s]))
                  => value(rep[r]) = value(rep[s])

\* C6. Tombstone visibility: value() hides an entry whenever a tombstone at
\* the path of the entry or at a proper prefix of it has a timestamp greater
\* than or equal to that of the entry.
C6_TombstoneHides ==
    kind = "map" =>
        \A r \in Replicas :
            \A i \in 1..Len(rep[r].entries), j \in 1..Len(rep[r].tombstones) :
                (/\ IsPrefix(rep[r].tombstones[j][1], rep[r].entries[i][1])
                 /\ rep[r].tombstones[j][2].timestamp >= rep[r].entries[i][2].timestamp)
                    => LeafAt(rep[r], rep[r].entries[i][1]) = {}

\* C7. Scalar/child invariant: whenever live entries exist at a path p and at
\* a descendant of p, value() shows the child map at p, never the scalar.
C7_ChildWins ==
    kind = "map" =>
        \A r \in Replicas :
            \A i, j \in 1..Len(rep[r].entries) :
                (/\ IsProperPrefix(rep[r].entries[i][1], rep[r].entries[j][1])
                 /\ ~Tombstoned(rep[r], rep[r].entries[i][1], rep[r].entries[i][2].timestamp)
                 /\ ~Tombstoned(rep[r], rep[r].entries[j][1], rep[r].entries[j][2].timestamp))
                    => /\ LeafAt(rep[r], rep[r].entries[i][1]) = {}
                       /\ \E l \in map_value(rep[r]) :
                             IsProperPrefix(rep[r].entries[i][1], l[1])

\* ids and timestamps of a list of operations
IdsAndTimes(oplist) == [i \in 1..Len(oplist) |-> <<oplist[i].id, oplist[i].timestamp>>]

\* C8. State round-trip: for every reachable CRDT c, from_state(c.state())
\* has the value() of c and, for every ts, its operations_since(ts) has the
\* ids and the timestamps of c.operations_since(ts).
C8_RoundTrip ==
    \A r \in Replicas :
        LET c == rep[r]
            restored == from_state(kind, c.node_id, state(c), clock)
        IN  /\ value(restored) = value(c)
            /\ \A ts \in 0..MaxClock :
                  IdsAndTimes(operations_since(restored, ts))
                      = IdsAndTimes(operations_since(c, ts))

(***************************************************************************)
(* Properties of the session layer, checked under SpecServer.              *)
(***************************************************************************)
\* the operation broadcasts among the messages of the last handler
OperationBroadcasts == {i \in 1..Len(sent) : sent[i].type = "operation"}

\* C9. Server timestamp authority: the room that was sent every operation
\* message with another client timestamp has the same state (same log, same
\* entries); and whenever a handler accepts an operation message, the
\* operation appended to the log of the room, and the one carried by the
\* broadcast, has the server clock at that step as its timestamp.
C9_ServerTimestampAuthority ==
    /\ [](\A r \in Rooms : room_state[r] = twin_state[r])
    /\ [][\A r \in Rooms :
            Len(room_state[r].operations)' > Len(room_state[r].operations) =>
                LET log == room_state[r].operations'
                    stored == log[Len(log)]
                IN  /\ stored.timestamp = clock
                    /\ stored.timestamp \notin ClientTimestamps
                    /\ \A i \in OperationBroadcasts' :
                           sent'[i].operation = to_dict(stored)]_vars

\* two operation messages were accepted, each with two different client
\* timestamps in the two runs, and the second was broadcast to a member
C9_Witness ==
    \E r \in Rooms :
        /\ Len(room_state[r].operations) = MaxRoomOps
        /\ \E i \in OperationBroadcasts :
              sent[i].operation.id = room_state[r].operations[MaxRoomOps].id

\* the messages of the last handler that carry the operation op of sender
\* user_id to channel ws
Deliveries(ws, op, user_id) ==
    {i \in OperationBroadcasts :
        /\ sent[i].ws = ws
        /\ sent[i].operation = to_dict(op)
        /\ sent[i].user_id = user_id}

\* the channels Room._connections of room_id holds
MemberChannels(room_id) ==
    {connections[room_id][i][2] : i \in 1..Len(connections[room_id])}

\* C11. Operation fan-out: after a handler newly applied an operation message
\* to room r, every member channel of r other than the sender has been written
\* exactly one operation broadcast with that operation and the user id of the
\* sender, and the sender none; after an operation message that was not
\* applied (its id was in the log already) no operation broadcast has been
\* written.
C11_OperationFanOut ==
    handled.type = "operation" =>
        \A r \in {handled.room_id} :
            LET log == room_state[r].operations
            IN  IF handled.flag
                THEN LET op == log[Len(log)]
                         user_id == ws_users[handled.ws]
                     IN  /\ \A m \in MemberChannels(r) \ {handled.ws} :
                                Cardinality(Deliveries(m, op, user_id)) = 1
                         /\ \A i \in OperationBroadcasts :
                                sent[i].ws # handled.ws
                ELSE OperationBroadcasts = {}

\* C10. Broadcast exclusion: no message of a broadcast issued with
\* exclude_user = u is written to a channel that _ws_users binds to u at
\* that moment.
C10_BroadcastExclusion ==
    \A i \in 1..Len(sent) :
        sent[i].exclude_user # NoUser => sent[i].bound # sent[i].exclude_user

(***************************************************************************)
(* Properties of the auth lockout, checked under SpecAuth.                 *)
(***************************************************************************)
\* the last handler of channel c was given a frame that carries a token
AuthAttemptOn(c) ==
    /\ handled.ws = c
    /\ handled.type \in {"auth", "join"}
    /\ handled.token # NoToken

\* channel c is locked out: MAX_AUTH_ATTEMPTS validations failed since the
\* last success, and the last of them less than AUTH_LOCKOUT_SECONDS ago
LockedOut(c) ==
    /\ Len(failures[c]) >= MAX_AUTH_ATTEMPTS
    /\ clock < failures[c][MAX_AUTH_ATTEMPTS]
                    + AUTH_LOCKOUT_SECONDS * TicksPerSecond

\* C12. Auth lockout: when a channel is locked out, every step in which a
\* handler is given an auth message or a join message with a token of that
\* channel answers rate_limited, does not call validate_token, and changes
\* nothing else.
C12_AuthLockout ==
    [][\A c \in Channels :
            (LockedOut(c) /\ AuthAttemptOn(c)' /\ sessionVars' # sessionVars)
                => /\ ~handled'.flag
                   /\ sent' = <<send_error(c, "RATE_LIMITED")>>
                   /\ failures' = failures
                   /\ ws_users' = ws_users /\ connections' = connections]_vars

\* a join with a token was refused 299 seconds after the fifth failure
C12_Witness ==
    \E c \in Channels :
        /\ AuthAttemptOn(c)
        /\ handled.type = "join"
        /\ ~handled.flag
        /\ Len(failures[c]) >= MAX_AUTH_ATTEMPTS
        /\ clock = failures[c][MAX_AUTH_ATTEMPTS]
                      + (AUTH_LOCKOUT_SECONDS - 1) * TicksPerSecond
        /\ sent = <<send_error(c, "RATE_LIMITED")>>

(***************************************************************************)
(* Properties of the receive loop, checked under SpecRate.                 *)
(***************************************************************************)
\* the number of frames of channel c that passed the gate at a time t with
\* from <= t < from + TicksPerSecond
PassesInSecond(c, from) ==
    Cardinality({i \in 1..Len(passes[c]) :
                    passes[c][i] >= from /\ passes[c][i] < from + TicksPerSecond})

\* C13. Rate-limit bound: in any interval of one second, at most
\* rate_limit + 1 frames of a single channel pass the rate-limit gate.
C13_RateLimitBound ==
    \A c \in Channels : \A from \in 0..clock :
        PassesInSecond(c, from) <= rate_limit + 1

\* C14. Rate-limit gate drops the frame: a frame that waited on a channel
\* while the gate answered rate_limited is never dispatched to a handler.
C14_GateDropsFrame ==
    \A c \in Channels : refused[c] \cap dispatched[c] = {}

(***************************************************************************)
(* Properties of screen sharing, checked under SpecShare.                  *)
(***************************************************************************)
\* the last handler was given a message of this type by channel c for room r
HandledOn(type, c, r) ==
    handled.ws = c /\ handled.type = type /\ handled.room_id = r

\* the messages among msgs of this type about room r and user_id
Broadcasts(msgs, type, r, user_id) ==
    {i \in 1..Len(msgs) :
        msgs[i].type = type /\ msgs[i].room_id = r /\ msgs[i].user_id = user_id}

\* msgs holds a message of this type for every channel in to
BroadcastTo(msgs, to, type, r, user_id) ==
    \A m \in to : \E i \in Broadcasts(msgs, type, r, user_id) : msgs[i].ws = m

\* the messages among msgs of this type, whatever they carry
OfType(msgs, type) == {i \in 1..Len(msgs) : msgs[i].type = type}

\* C15. Screen-share uniqueness and contention: a room never has more than
\* one sharer; a screenshare_start for room r from a channel of a user other
\* than the sharer of r is answered permission_denied, broadcasts nothing and
\* leaves the sharer; an accepted start makes the user of the sender the
\* sharer of r and writes ScreenShareStarted to every open member channel.
C15_ScreenShareContention ==
    /\ [](\A r \in Rooms :
            Cardinality({u \in AuthUsers \cup {NoUser} : screen_sharers[r] = u}) = 1)
    /\ [][\A c \in Channels, r \in Rooms :
            HandledOn("screenshare_start", c, r)' =>
                LET u2 == ws_users[c]
                    u1 == screen_sharers[r]
                IN  /\ (u2 # NoUser /\ u1 # NoUser /\ u1 # u2) =>
                            /\ ~handled'.flag
                            /\ sent' = <<send_error(c, "PERMISSION_DENIED")>>
                    /\ ~handled'.flag =>
                            /\ OfType(sent', "screenshare_started") = {}
                            /\ screen_sharers' = screen_sharers
                    /\ handled'.flag =>
                            /\ u2 # NoUser
                            /\ screen_sharers' = [screen_sharers EXCEPT ![r] = u2]
                            /\ BroadcastTo(sent', MemberChannels(r) \cap Alive,
                                           "screenshare_started", r, u2)]_vars

\* a member of the room asked to start while another user was sharing, and
\* was refused
C15_Witness ==
    \E c \in Channels, r \in Rooms :
        /\ HandledOn("screenshare_start", c, r)
        /\ r \in ws_rooms[c]
        /\ ws_users[c] # NoUser
        /\ screen_sharers[r] \notin {NoUser, ws_users[c]}
        /\ sent = <<send_error(c, "PERMISSION_DENIED")>>

\* C16. Screen-share stop: a screenshare_stop for room r from a channel of
\* the sharer of r clears the sharer and writes ScreenShareStopped to every
\* open member channel; from any other channel it changes nothing and writes
\* nothing.
C16_ScreenShareStop ==
    [][\A c \in Channels, r \in Rooms :
            HandledOn("screenshare_stop", c, r)' =>
                LET u == ws_users[c]
                IN  IF u # NoUser /\ screen_sharers[r] = u
                    THEN /\ screen_sharers' = [screen_sharers EXCEPT ![r] = NoUser]
                         /\ BroadcastTo(sent', MemberChannels(r) \cap Alive,
                                        "screenshare_stopped", r, u)
                    ELSE /\ sent' = <<>>
                         /\ UNCHANGED <<screen_sharers, connections, presence,
                                        ws_users, ws_rooms, user_connections,
                                        rooms, room_state>>]_vars

\* the sharer stopped, and a channel of another user was told
C16_Witness ==
    \E c \in Channels, r \in Rooms :
        /\ HandledOn("screenshare_stop", c, r)
        /\ handled.flag
        /\ screen_sharers[r] = NoUser
        /\ \E i \in Broadcasts(sent, "screenshare_stopped", r, ws_users[c]) :
              sent[i].ws # c /\ sent[i].bound # ws_users[c]

BoundTo(u) == {c \in Channels : ws_users[c] = u}

\* C18. Connection cap: for every user u, _user_connections[u] holds at most
\* max_connections_per_user channels, and at most that many channels are
\* bound to u, however the auth and join handlers of the channels interleave.
C18_ConnectionCap ==
    \A u \in AuthUsers :
        /\ Cardinality(user_connections[u]) <= max_connections_per_user
        /\ Cardinality(BoundTo(u)) <= max_connections_per_user

\* a user has as many channels as the limit allows, and the handler of one
\* more channel, its token validated, was refused
C18_Witness ==
    \E u \in AuthUsers, c \in Channels :
        /\ Cardinality(user_connections[u]) = max_connections_per_user
        /\ Cardinality(BoundTo(u)) = max_connections_per_user
        /\ c \notin user_connections[u]
        /\ handled.ws = c /\ handled.type \in {"auth", "join"} /\ handled.flag
        /\ pending[c] = NoPending
        /\ sent = <<send_error(c, "RATE_LIMITED")>>

\* C19. Cleanup on close: a channel that is closed is bound to no user, has
\* no rooms, and is in the set of channels of no user.  (A user without
\* channels has the empty set here, which stands for no entry.)
C19_CleanupOnClose ==
    \A c \in Channels :
        conn[c] = "closed" =>
            /\ ws_users[c] = NoUser
            /\ ws_rooms[c] = {}
            /\ \A u \in AuthUsers : c \notin user_connections[u]

(***************************************************************************)
(* Properties of the join, checked under SpecJoin.                         *)
(***************************************************************************)
\* the user a join of channel c with this token asks to enter as
JoinUser(c, token) ==
    IF token # NoToken THEN validate_token(token) ELSE ws_users[c]

\* the options ask for an authenticated user
AuthenticationNeeded == require_auth \/ ~allow_anonymous

\* the join made channel c a member only with the authorization the options
\* ask for, and a join with an invalid token did nothing
JoinOnlyIfAuthorized(c, token) ==
    /\ OfType(sent', "joined") # {} =>
            /\ require_auth => ws_users'[c] \in AuthUsers
            /\ (~require_auth /\ ~allow_anonymous) => ws_users'[c] \in AuthUsers
    /\ token \notin ValidTokens \cup {NoToken} =>
            /\ OfType(sent', "joined") = {}
            /\ ws_users' = ws_users
            /\ UNCHANGED <<connections, presence, ws_rooms>>

\* C20. Join authorization: a join makes the channel a member only if the
\* channel has an authenticated user whenever require_auth is set or
\* allow_anonymous is unset; every other join is answered
\* authentication_failed and leaves members, presence and _ws_rooms; a join
\* with an invalid token is rejected and binds no anonymous user.
C20_JoinAuthorization ==
    [][\A c \in Channels :
            (handled'.ws = c /\ handled'.type = "join") =>
                LET token == handled'.token
                IN  /\ JoinOnlyIfAuthorized(c, token)
                    /\ (AuthenticationNeeded /\ JoinUser(c, token) \notin AuthUsers) =>
                            /\ sent' = <<send_error(c, "AUTHENTICATION_FAILED")>>
                            /\ UNCHANGED <<connections, presence, ws_rooms>>]_vars

\* C20, amended. As C20, but a join that is not authorized and carries a
\* token while the channel is locked out is answered rate_limited instead of
\* authentication_failed.
C20_JoinAuthorizationOrLockout ==
    [][\A c \in Channels :
            (handled'.ws = c /\ handled'.type = "join") =>
                LET token == handled'.token
                IN  /\ JoinOnlyIfAuthorized(c, token)
                    /\ (AuthenticationNeeded /\ JoinUser(c, token) \notin AuthUsers) =>
                            /\ sent' = IF token # NoToken /\ LockedOut(c)
                                           THEN <<send_error(c, "RATE_LIMITED")>>
                                           ELSE <<send_error(c, "AUTHENTICATION_FAILED")>>
                            /\ UNCHANGED <<connections, presence, ws_rooms>>]_vars

\* anonymous users are allowed, and a join with an invalid token on a channel
\* without a user was refused and bound no user
C20_Witness ==
    \E c \in Channels :
        /\ allow_anonymous /\ ~require_auth
        /\ handled.ws = c /\ handled.type = "join"
        /\ handled.token \notin ValidTokens \cup {NoToken}
        /\ handled.flag
        /\ ws_users[c] = NoUser
        /\ ws_rooms[c] = {}
        /\ sent = <<send_error(c, "AUTHENTICATION_FAILED")>>

(***************************************************************************)
(* Properties of function calls, checked under SpecCall.                   *)
(***************************************************************************)
\* the call_result messages among msgs for channel ws with this call_id
CallResults(msgs, ws, call_id) ==
    {i \in 1..Len(msgs) :
        msgs[i].type = "call_result" /\ msgs[i].ws = ws /\ msgs[i].call_id = call_id}

\* C21. Call preconditions: after a call message whose function was called,
\* the channel is joined to the room, the function is registered, and the
\* user of the channel is authenticated if the function has requires_auth;
\* an anonymous member who calls a function with requires_auth is answered
\* success false, "Authentication required.", and the function is not called.
C21_CallPreconditions ==
    handled.type = "call" =>
        LET c == handled.ws
            name == handled.function_name
        IN  /\ handled.flag =>
                  /\ handled.room_id \in ws_rooms[c]
                  /\ name \in DOMAIN functions
                  /\ functions[name].requires_auth => ws_users[c] \in AuthUsers
            /\ ( /\ handled.room_id \in ws_rooms[c]
                 /\ name \in DOMAIN functions
                 /\ functions[name].requires_auth
                 /\ ws_users[c] \notin AuthUsers ) =>
                    /\ ~handled.flag
                    /\ sent = <<CallResult(c, handled.call_id, FALSE, None,
                                           "Authentication required.")>>

\* an anonymous member called the function with requires_auth
C21_Witness ==
    /\ handled.type = "call"
    /\ handled.function_name = "guarded"
    /\ handled.room_id \in ws_rooms[handled.ws]
    /\ ws_users[handled.ws] = AnonUser(handled.ws)
    /\ ~handled.flag
    /\ sent = <<CallResult(handled.ws, handled.call_id, FALSE, None,
                           "Authentication required.")>>

\* C22. Call outcome: after every call message the channel has been written
\* exactly one call_result with the call_id of the message and nothing else:
\* success with the value when the function returned, "Function execution
\* timeout." when it ran too long, "Function execution failed." when it
\* raised; and the receive loop of the channel goes on.
C22_CallOutcome ==
    handled.type = "call" =>
        LET c == handled.ws
        IN  /\ Len(sent) = 1
            /\ CallResults(sent, c, handled.call_id) = {1}
            /\ loop[c] # "finally"
            /\ handled.flag =>
                  /\ handled.outcome \in {"returns", "returns_unencodable"} =>
                        sent[1].success /\ sent[1].result = ReturnValue
                  /\ handled.outcome = "timeout" =>
                        ~sent[1].success
                        /\ sent[1].error = "Function execution timeout."
                  /\ handled.outcome = "raises" =>
                        ~sent[1].success
                        /\ sent[1].error = "Function execution failed."

(***************************************************************************)
(* Properties of the receive loop and its handlers, checked under SpecCap. *)
(***************************************************************************)
\* C23. Serial dispatch per channel: while a handler of channel c is in
\* progress, the only step of c is the rest of that handler, with the
\* messages it writes; no other frame of c is handled and c is not torn down
\* before it.
C23_SerialDispatch ==
    [][\A c \in Channels :
            ( /\ pending[c] # NoPending
              /\ handled'.ws = c
              /\ handled' # handled \/ pending'[c] # pending[c] ) =>
                /\ pending'[c] = NoPending
                /\ handled'.type = pending[c].type
                /\ handled'.room_id = pending[c].room_id
                /\ handled'.token = NoToken]_vars

\* a handler of one channel finished while a handler of another channel was
\* in progress
C23_Witness ==
    \E c \in Channels : \E d \in Channels \ {c} :
        /\ handled.ws = c /\ handled.type = "join" /\ handled.token = NoToken
        /\ pending[c] = NoPending
        /\ pending[d] # NoPending
        /\ OfType(sent, "joined") # {}
(***************************************************************************)
(* Properties of the handlers await by await, checked under SpecTask.      *)
(***************************************************************************)
\* the handler of a join of c to r has not yet written the joined response
BeforeJoined(c, r) ==
    /\ pending[c].type = "join"
    /\ pending[c].room_id = r
    /\ at[c] \in {"idle", "add_user", "added"}
    /\ r \notin ws_rooms[c]

\* C24. Joined-first ordering: while the handler of a join of c to r has not
\* yet written the joined response, no user_joined of r is written to c; and
\* the handler of c writes the user_joined that announces c only once the
\* joined response is written.
C24_JoinedFirst ==
    [][\A c \in Channels, r \in Rooms :
            /\ BeforeJoined(c, r) =>
                    \A i \in OfType(sent', "user_joined") :
                        ~(sent'[i].ws = c /\ sent'[i].room_id = r)
            /\ ( /\ handled'.ws = c
                 /\ handled'.type = "join"
                 /\ OfType(sent', "user_joined") # {} ) => at[c] = "joined"]_vars

\* the awaits at which a handler waits for the transport: the send of the
\* error of the connection limit, the send of the joined response and the
\* sends of a broadcast
TransportAwaits == {"cap_reply", "joined", "broadcast"}

\* C29. Session lock discipline: no handler holds _ws_lock while it is
\* suspended in a send or a receive on a channel.
C29_SessionLockDiscipline ==
    \A c \in Channels : ws_lock = c => at[c] \notin TransportAwaits

(***************************************************************************)
(* Properties of the sync request, checked under SpecSync.                 *)
(***************************************************************************)
\* the places in the log of a room of the operations later than a time
LaterThan(room_id, t) ==
    {i \in 1..Len(room_state[room_id].operations) :
        room_state[room_id].operations[i].timestamp > t}

\* C25. Late-join sync: a sync_request for r with since_timestamp t from a
\* channel joined to r is answered with one sync message; its state is the
\* value of r, its operations are the operations of the log of r later than
\* t, each once, with timestamps that never go down.  A channel that is not
\* joined to r is answered with one error.
C25_LateJoinSync ==
    [][\A c \in Channels, r \in Rooms :
            ( /\ handled'.type = "sync_request"
              /\ handled'.ws = c
              /\ handled'.room_id = r ) =>
                /\ Len(sent') = 1
                /\ sent'[1].ws = c
                /\ room_state' = room_state
                /\ IF r \in ws_rooms[c]
                   THEN LET operations == sent'[1].operations
                            later == LaterThan(r, handled'.since_timestamp)
                        IN  /\ sent'[1].type = "sync"
                            /\ sent'[1].room_id = r
                            /\ sent'[1].state = value(room_state[r])
                            /\ Len(operations) = Cardinality(later)
                            /\ {operations[i] : i \in 1..Len(operations)} =
                                   {to_dict(room_state[r].operations[i]) : i \in later}
                            /\ \A i \in 1..Len(operations) :
                                 \A j \in i..Len(operations) :
                                    operations[i].timestamp <= operations[j].timestamp
                   ELSE sent'[1].type = "error"]_vars

\* a joined channel was answered with the later one of two operations of the
\* log, the time it asked for being that of the earlier one
C25_Witness ==
    /\ handled.type = "sync_request"
    /\ handled.room_id \in ws_rooms[handled.ws]
    /\ Len(sent) = 1
    /\ sent[1].type = "sync"
    /\ Len(room_state[handled.room_id].operations) = 2
    /\ Len(sent[1].operations) = 1
    /\ room_state[handled.room_id].operations[1].timestamp = handled.since_timestamp

\* C28. Operations require membership: an operation message for r from a
\* channel that is not joined to r leaves the state and the log of r as they
\* are and is broadcast to nobody; when the channel is bound to a user it is
\* answered with one error, room_not_found or permission_denied.
C28_OperationsRequireMembership ==
    [][\A c \in Channels, r \in Rooms :
            ( /\ handled'.type = "operation"
              /\ handled'.ws = c
              /\ handled'.room_id = r
              /\ r \notin ws_rooms[c] ) =>
                /\ room_state'[r] = room_state[r]
                /\ OfType(sent', "operation") = {}
                /\ ws_users[c] # NoUser =>
                        /\ Len(sent') = 1
                        /\ sent'[1].type = "error"
                        /\ sent'[1].code \in {"ROOM_NOT_FOUND", "PERMISSION_DENIED"}]_vars

(***************************************************************************)
(* Properties of the PresenceManager, checked under SpecPresence.          *)
(***************************************************************************)
\* no entry is older than the stale timeout, and no presence room is empty
Fresh ==
    \A r \in DOMAIN presence_rooms :
        /\ DOMAIN presence_rooms[r] # {}
        /\ \A u \in DOMAIN presence_rooms[r] :
                presence_rooms[r][u] >= clock - stale_timeout * TicksPerSecond

\* C26. Presence freshness: after each sweep of _cleanup_stale no presence
\* entry is older than now - stale_timeout and no presence room is empty.
C26_PresenceFreshness ==
    [][(handled'.type = "cleanup_stale" /\ clock' = clock) => Fresh']_vars

\* a sweep removed something, and what it left is one room with an entry
\* that is exactly stale_timeout old
C26_Witness ==
    /\ handled.type = "cleanup_stale"
    /\ handled.flag
    /\ Fresh
    /\ DOMAIN presence_rooms = {"r1"}
    /\ \E u \in DOMAIN presence_rooms["r1"] :
            presence_rooms["r1"][u] = clock - stale_timeout * TicksPerSecond

(***************************************************************************)
(* Properties of the frames that are no message, checked under SpecFrame.  *)
(***************************************************************************)
\* C27. Validation errors are contained: a frame that is no JSON, no JSON
\* object, of an unknown type, or with a missing, an oversize or a dangerous
\* field is answered with one error invalid_message; rooms, presence and
\* session state stay as they are, and the receive loop goes on.
C27_ValidationContained ==
    [][\A c \in Channels :
            (handled'.type = "frame" /\ handled'.ws = c) =>
                /\ Len(sent') = 1
                /\ sent'[1].ws = c
                /\ sent'[1].type = "error"
                /\ sent'[1].code = "INVALID_MESSAGE"
                /\ loop'[c] # "finally"
                /\ UNCHANGED <<conn, ws_users, ws_rooms, user_connections,
                               rooms, connections, room_state, presence,
                               screen_sharers>>]_vars

(***************************************************************************)
(* Properties of Room.broadcast, checked under SpecEvict.                  *)
(***************************************************************************)
\* the members of a room other than a user, as pairs of user and channel
OtherMembers(conns, user) ==
    {conns[i] : i \in {j \in 1..Len(conns) : conns[j][1] # user}}

\* C30. Broadcast failure eviction: when the user_joined broadcast of a join
\* cannot be sent to a member, the join handler still ends well, every other
\* member but the joining user gets the user_joined, and once the handler is
\* over the members whose send failed are no members any more.
C30_BroadcastEviction ==
    [][\A c \in Channels, r \in Rooms :
            ( /\ handled'.type = "join"
              /\ handled'.ws = c
              /\ handled'.room_id = r
              /\ Len(sent') > 0
              /\ sent'[1].type = "joined" ) =>
                LET user == sent'[1].user_id
                    others == OtherMembers(connections[r], user)
                IN  /\ sent'[1].ws = c
                    /\ loop' = loop
                    /\ conn' = conn
                    /\ \A e \in others :
                        IF e[2] \in Alive
                        THEN /\ BroadcastTo(sent', {e[2]}, "user_joined", r, user)
                             /\ e \in OtherMembers(connections'[r], user)
                        ELSE /\ ~BroadcastTo(sent', {e[2]}, "user_joined", r, user)
                             /\ e[1] \notin DictKeys(connections'[r])]_vars

\* a join whose user_joined was written to a member and could not be sent to
\* another, which the room has no more
C30_Witness ==
    /\ handled.type = "join"
    /\ Len(sent) = 2
    /\ sent[1].type = "joined"
    /\ sent[2].type = "user_joined"
    /\ handled.evicted # {}
    /\ handled.evicted \cap DictKeys(connections[handled.room_id]) = {}

(***************************************************************************)
(* The server with a storage backend: a room is loaded when it is made on  *)
(* its first join and saved when a user leaves it.  A call of the backend  *)
(* either returns or raises.  Two rooms, so that the loop of               *)
(* _cleanup_connection has more than one turn.                             *)
(***************************************************************************)
StorageRooms == {"r1", "r2"}
StorageChannels == {"c1", "c2"}

\* the token each client of these runs holds
StorageToken(c) == IF c = "c1" THEN "tA" ELSE "tB"

\* the orders in which a for loop can go through a set of room ids
Orders(S) ==
    {o \in [1..Cardinality(S) -> S] : \A r \in S : \E i \in DOMAIN o : o[i] = r}

\* _handle_join: the user the join is made for reaches storage.load, that
\* is, no check refuses the join and the room is not there yet
reaches_load(c, room_id, token) ==
    LET gate == auth_is_allowed(AuthLimiter, c, clock)
        auth_user == validate_token(token)
        user == IF token # NoToken THEN auth_user ELSE ws_users[c]
        settled == IF user = NoUser THEN AnonUser(c) ELSE user
    IN  /\ token # NoToken => gate.allowed /\ auth_user # NoUser
        /\ require_auth => user \in AuthUsers
        /\ user = NoUser => allow_anonymous
        /\ ~at_connection_cap(settled)
        /\ room_id \notin rooms
        /\ auto_create_rooms

\* _handle_connection around _handle_join with a storage backend whose load
\* returns or raises.  The exception of load is caught nowhere before the
\* except Exception of _handle_connection: the channel is bound already, the
\* room is not made, internal_error is sent and the receive loop is left.
StoredJoin(c, room_id, token, load) ==
    /\ loop[c] # "finally"
    /\ IF load = "raises" /\ reaches_load(c, room_id, token)
       THEN /\ conn[c] = "open"
            /\ UNCHANGED <<crdtVars, configVars, taskVars, presenceVars>>
            /\ UNCHANGED <<screen_sharers, tokens, last_update, inbox, refused,
                           dispatched, passes, pending>>
            /\ LET gate == auth_is_allowed(AuthLimiter, c, clock)
                   auth_user == validate_token(token)
                   user == IF token # NoToken THEN auth_user ELSE ws_users[c]
                   settled == IF user = NoUser THEN AnonUser(c) ELSE user
               IN  /\ IF token # NoToken THEN AuthAttempt(c, gate, auth_user)
                      ELSE UNCHANGED authVars
                   /\ ws_users' = [ws_users EXCEPT ![c] = settled]
                   /\ user_connections' =
                          [user_connections EXCEPT ![settled] = @ \cup {c}]
            /\ sent' = <<send_error(c, "INTERNAL_ERROR")>>
            /\ loop' = [loop EXCEPT ![c] = "finally"]
            /\ handled' = [ws |-> c, type |-> "join_raised", room_id |-> room_id,
                           token |-> token, flag |-> FALSE]
            /\ UNCHANGED <<conn, ws_rooms, rooms, connections, room_state,
                           twin_state, presence>>
       ELSE HandleJoin(c, room_id, token)

\* _handle_connection around _handle_leave with a storage backend whose save
\* returns or raises.  _leave_room saves after the user_left broadcast and
\* before it takes the room out of _ws_rooms; the exception reaches the
\* except Exception of _handle_connection.
StoredLeave(c, room_id, save) ==
    /\ loop[c] # "finally"
    /\ IF save = "raises" /\ ws_users[c] # NoUser /\ room_id \in rooms
       THEN /\ conn[c] = "open"
            /\ UNCHANGED <<crdtVars, configVars, taskVars, presenceVars>>
            /\ UNCHANGED <<screen_sharers, authVars, tokens, last_update, inbox,
                           refused, dispatched, passes, pending>>
            /\ LET left == leave_room([connections |-> connections,
                                       presence |-> presence,
                                       screen_sharers |-> screen_sharers,
                                       sent |-> <<>>],
                                      room_id, ws_users[c], Alive, ws_users)
               IN  /\ connections' = left.connections
                   /\ presence' = left.presence
                   /\ sent' = left.sent \o <<send_error(c, "INTERNAL_ERROR")>>
            /\ loop' = [loop EXCEPT ![c] = "finally"]
            /\ handled' = [ws |-> c, type |-> "leave_raised", room_id |-> room_id,
                           token |-> NoToken, flag |-> FALSE]
            /\ UNCHANGED <<conn, ws_users, ws_rooms, user_connections, rooms,
                           room_state, twin_state>>
       ELSE HandleLeave(c, room_id)

\* the loop of _cleanup_connection over the rooms of the channel, in the
\* order the set yields them, with a backend whose save raises for the rooms
\* of failing: the exception leaves _leave_room and the loop
RECURSIVE stored_leave_rooms(_, _, _, _, _, _)
stored_leave_rooms(order, acc, user_id, alive, users, failing) ==
    IF order = <<>> THEN acc
    ELSE LET room_id == Head(order)
             left == leave_room(release_share(acc, room_id, user_id,
                                              alive, users),
                                room_id, user_id, alive, users)
         IN  IF room_id \in rooms /\ room_id \in failing
             THEN [left EXCEPT !.raised = TRUE]
             ELSE stored_leave_rooms(Tail(order), left, user_id, alive, users,
                                     failing)

\* The finally block of _handle_connection with a storage backend:
\* _cleanup_connection, whose _leave_room saves every room that is left.
StoredDisconnect(c, order, failing) ==
    /\ conn[c] = "open"
    /\ idle(c)
    /\ order \in Orders(ws_rooms[c])
    /\ UNCHANGED <<crdtVars, configVars, taskVars, presenceVars>>
    /\ UNCHANGED <<failures, inbox, refused, dispatched, passes, pending>>
    /\ LET user == ws_users[c]
           users == [ws_users EXCEPT ![c] = NoUser]
           left == stored_leave_rooms(order,
                                      [connections |-> connections,
                                       presence |-> presence,
                                       screen_sharers |-> screen_sharers,
                                       sent |-> <<>>, raised |-> FALSE],
                                      user, Alive \ {c}, users, failing)
           limiter == record_success(AuthLimiter, c)
       IN  /\ conn' = [conn EXCEPT ![c] = "closed"]
           /\ tokens' = cleanup(Bucket, c).tokens
           /\ last_update' = cleanup(Bucket, c).last_update
           /\ loop' = [loop EXCEPT ![c] = "done"]
           /\ auth_attempts' = limiter.attempts
           /\ lockout_until' = limiter.lockout_until
           /\ ws_users' = users
           /\ ws_rooms' = [ws_rooms EXCEPT ![c] = {}]
           /\ IF user = NoUser
              THEN /\ sent' = <<>>
                   /\ UNCHANGED <<user_connections, connections, presence,
                                  screen_sharers>>
              ELSE /\ user_connections' =
                          [user_connections EXCEPT ![user] = @ \ {c}]
                   /\ connections' = left.connections
                   /\ presence' = left.presence
                   /\ screen_sharers' = left.screen_sharers
                   /\ sent' = left.sent
           /\ handled' = [ws |-> c, type |-> "disconnect_stored", room_id |-> "",
                          token |-> NoToken,
                          flag |-> user # NoUser /\ left.raised]
           /\ UNCHANGED <<rooms, room_state, twin_state>>

\* the state of a server just made with the default options and two rooms
\* that can be made
StorageInit ==
    /\ CrdtInit
    /\ kind = "map"
    /\ conn = [c \in Channels |-> "idle"]
    /\ ws_users = [c \in Channels |-> NoUser]
    /\ ws_rooms = [c \in Channels |-> {}]
    /\ user_connections = [u \in Users |-> {}]
    /\ rooms = {}
    /\ connections = [r \in StorageRooms |-> <<>>]
    /\ room_state = [r \in StorageRooms |-> NewRoomState(r)]
    /\ twin_state = [r \in StorageRooms |-> NewRoomState(r)]
    /\ presence = [r \in StorageRooms |-> {}]
    /\ sent = <<>>
    /\ handled = [ws |-> "", type |-> "", room_id |-> "", token |-> NoToken,
                 flag |-> FALSE]
    /\ screen_sharers = [r \in StorageRooms |-> NoUser]
    /\ auth_attempts = [c \in Channels |-> 0]
    /\ lockout_until = [c \in Channels |-> NoTime]
    /\ failures = [c \in Channels |-> <<>>]
    /\ tokens = [c \in Channels |-> FullBucket]
    /\ last_update = [c \in Channels |-> NoTime]
    /\ loop = [c \in Channels |-> "gate"]
    /\ inbox = [c \in Channels |-> <<>>]
    /\ refused = [c \in Channels |-> {}]
    /\ dispatched = [c \in Channels |-> {}]
    /\ passes = [c \in Channels |-> <<>>]
    /\ pending = [c \in Channels |-> NoPending]
    /\ ws_lock = NoChannel
    /\ room_lock = [r \in StorageRooms |-> NoChannel]
    /\ at = [c \in Channels |-> "idle"]
    /\ event_loop = [ready |-> <<>>, waiters |-> [r \in Rooms |-> <<>>]]
    /\ presence_rooms = [r \in {} |-> 0]
    /\ require_auth = FALSE
    /\ allow_anonymous = FALSE
    /\ auto_create_rooms = TRUE

\* Clients authenticate, join and leave the two rooms and close, over a
\* backend any of whose calls can raise.
StorageNext ==
    \/ \E c \in StorageChannels : Connect(c)
    \/ \E c \in StorageChannels :
            loop[c] # "finally" /\ HandleAuth(c, StorageToken(c))
    \/ \E c \in StorageChannels, r \in StorageRooms,
          load \in {"returns", "raises"} : StoredJoin(c, r, NoToken, load)
    \/ \E c \in StorageChannels, r \in StorageRooms,
          save \in {"returns", "raises"} : StoredLeave(c, r, save)
    \/ \E c \in StorageChannels, order \in Orders(StorageRooms) \cup Orders({"r1"})
                \cup Orders({"r2"}) \cup Orders({}),
          failing \in SUBSET StorageRooms : StoredDisconnect(c, order, failing)

SpecStorage == StorageInit /\ [][StorageNext]_vars

(***************************************************************************)
(* Properties of the storage calls, checked under SpecStorage.             *)
(***************************************************************************)
\* C31. Storage failures are contained: when the load of a first join or
\* the save of a leave raises, the state of the rooms stays in memory and
\* the session goes on; a leave still takes the user out of the room, of its
\* presence and the room out of the rooms of the channel; and a close still
\* takes the user out of every room of the channel and of its presence, and
\* clears the rooms of the channel.
C31_StorageContained ==
    [][\A c \in StorageChannels :
            /\ (handled'.ws = c /\ handled'.type \in {"join_raised", "leave_raised"})
                    => /\ room_state' = room_state
                       /\ loop'[c] # "finally"
                       /\ conn'[c] = "open"
            /\ (handled'.ws = c /\ handled'.type = "leave_raised")
                    => /\ ws_users[c] \notin DictKeys(connections'[handled'.room_id])
                       /\ ws_users[c] \notin presence'[handled'.room_id]
                       /\ handled'.room_id \notin ws_rooms'[c]
            /\ (handled'.ws = c /\ handled'.type = "disconnect_stored"
                    /\ handled'.flag)
                    => /\ room_state' = room_state
                       /\ ws_rooms'[c] = {}
                       /\ \A r \in ws_rooms[c] :
                            /\ ws_users[c] \notin DictKeys(connections'[r])
                            /\ ws_users[c] \notin presence'[r]]_vars

\* the close alone: a close during which a save raises still takes the user
\* out of every room of the channel and of its presence
CloseLeavesEveryRoom ==
    [][\A c \in StorageChannels :
            (handled'.ws = c /\ handled'.type = "disconnect_stored"
                /\ handled'.flag)
                    => \A r \in ws_rooms[c] :
                            /\ ws_users[c] \notin DictKeys(connections'[r])
                            /\ ws_users[c] \notin presence'[r]]_vars

(***************************************************************************)
(* room.py: Room.add_user, Room.remove_user and Room.broadcast await by    *)
(* await, as _handle_join and _leave_room call them.  Every task may run   *)
(* whenever it is not suspended: no order of the event loop is assumed.    *)
(* A channel changes its user with an auth message between two frames, so  *)
(* the user of a join or a leave is any user.                              *)
(***************************************************************************)
FanChannels == {"c1", "c2", "c3"}

\* Room._lock is held by some task
locked_never(room_id) == FALSE

\* Room._lock is held by some task
locked(room_id) == room_lock[room_id] # NoChannel

\* the locals of a handler that is inside the calls of a Room
RoomCall(type, room_id, user, members, failed) ==
    [type |-> type, room_id |-> room_id, user |-> user, members |-> members,
     failed |-> failed]

\* Room.add_user and Room.remove_user once Room._lock is taken
set_member(c) ==
    LET room_id == pending[c].room_id
        user == pending[c].user
    IN  /\ connections' =
            [connections EXCEPT ![room_id] =
                IF pending[c].type = "join" THEN DictSet(@, user, c)
                ELSE DictPop(@, user)]
        /\ at' = [at EXCEPT ![c] = "announce"]

\* _handle_join at room.add_user, and _leave_room at room.remove_user, of a
\* leave message or of the cleanup of a channel that closes: the member is
\* set under Room._lock, which is waited for while a task holds it
RoomEnter(c, type, room_id, user, closing) ==
    /\ conn[c] = "open"
    /\ at[c] = "idle"
    /\ room_id \in rooms
    /\ closing => type = "leave"
    /\ UNCHANGED <<crdtVars, configVars, presenceVars, event_loop>>
    /\ UNCHANGED <<screen_sharers, authVars>>
    /\ UNCHANGED <<tokens, last_update, loop, inbox, refused, dispatched, passes>>
    /\ UNCHANGED <<ws_users, ws_rooms, user_connections, rooms, room_state,
                   twin_state, presence, ws_lock, room_lock>>
    /\ conn' = IF closing THEN [conn EXCEPT ![c] = "closed"] ELSE conn
    /\ pending' = [pending EXCEPT ![c] = RoomCall(type, room_id, user, <<>>, {})]
    /\ handled' = [ws |-> c, type |-> type, room_id |-> room_id,
                   token |-> NoToken, flag |-> closing]
    /\ sent' = <<>>
    /\ IF locked(room_id)
       THEN /\ at' = [at EXCEPT ![c] = "member"]
            /\ UNCHANGED connections
       ELSE /\ connections' =
                    [connections EXCEPT ![room_id] =
                        IF type = "join" THEN DictSet(@, user, c)
                        ELSE DictPop(@, user)]
            /\ at' = [at EXCEPT ![c] = "announce"]

\* the handler that waited for Room._lock in add_user or remove_user goes on
RoomMember(c) ==
    /\ at[c] = "member"
    /\ ~locked(pending[c].room_id)
    /\ UNCHANGED <<crdtVars, configVars, presenceVars, event_loop>>
    /\ UNCHANGED <<screen_sharers, authVars>>
    /\ UNCHANGED <<tokens, last_update, loop, inbox, refused, dispatched, passes,
                   pending>>
    /\ UNCHANGED <<conn, ws_users, ws_rooms, user_connections, rooms, room_state,
                   twin_state, presence, ws_lock, room_lock>>
    /\ handled' = Step(c)
    /\ sent' = <<>>
    /\ set_member(c)

\* Room.broadcast of user_joined or user_left: Room._lock is taken, the
\* recipients are chosen and the sends are started; the task waits in gather
\* with the lock held, unless there is nobody to send to
RoomBroadcast(c) ==
    /\ at[c] = "announce"
    /\ ~locked(pending[c].room_id)
    /\ UNCHANGED <<crdtVars, configVars, presenceVars, event_loop>>
    /\ UNCHANGED <<screen_sharers, authVars>>
    /\ UNCHANGED <<tokens, last_update, loop, inbox, refused, dispatched, passes>>
    /\ UNCHANGED <<conn, ws_users, ws_rooms, user_connections, rooms,
                   connections, room_state, twin_state, presence, ws_lock>>
    /\ handled' = Step(c)
    /\ LET room_id == pending[c].room_id
           user == pending[c].user
           exclude_user == IF pending[c].type = "join" THEN user ELSE NoUser
           b == broadcast(connections[room_id],
                          Message(IF pending[c].type = "join"
                                  THEN "user_joined" ELSE "user_left",
                                  room_id, user, NoOperation),
                          exclude_user, Alive, ws_users)
           to == DictKeys(connections[room_id]) \ {exclude_user}
       IN  /\ sent' = b.sent
           /\ IF to = {}
              THEN /\ Return(c)
                   /\ UNCHANGED room_lock
              ELSE /\ at' = [at EXCEPT ![c] = "broadcast"]
                   /\ pending' = [pending EXCEPT ![c] =
                        RoomCall(pending[c].type, room_id, user,
                                 connections[room_id],
                                 DictKeys(connections[room_id])
                                    \ DictKeys(b.connections))]
                   /\ room_lock' = [room_lock EXCEPT ![room_id] = c]

\* the sends of Room.broadcast are over: Room._lock is released; the users
\* whose send raised are then removed one by one with Room.remove_user
RoomBroadcastDone(c) ==
    /\ at[c] = "broadcast"
    /\ UNCHANGED <<crdtVars, configVars, presenceVars, event_loop>>
    /\ UNCHANGED <<screen_sharers, authVars>>
    /\ UNCHANGED <<tokens, last_update, loop, inbox, refused, dispatched, passes>>
    /\ UNCHANGED <<conn, ws_users, ws_rooms, user_connections, rooms,
                   connections, room_state, twin_state, presence, ws_lock>>
    /\ handled' = Step(c)
    /\ sent' = <<>>
    /\ room_lock' = [room_lock EXCEPT ![pending[c].room_id] = NoChannel]
    /\ IF pending[c].failed = {}
       THEN Return(c)
       ELSE Await(c, "failed")

\* Room.broadcast after the lock: remove_user of a user whose send raised
RoomRemoveFailed(c, user_id) ==
    /\ at[c] = "failed"
    /\ user_id \in pending[c].failed
    /\ ~locked(pending[c].room_id)
    /\ UNCHANGED <<crdtVars, configVars, presenceVars, event_loop>>
    /\ UNCHANGED <<screen_sharers, authVars>>
    /\ UNCHANGED <<tokens, last_update, loop, inbox, refused, dispatched, passes>>
    /\ UNCHANGED <<conn, ws_users, ws_rooms, user_connections, rooms, room_state,
                   twin_state, presence, ws_lock, room_lock>>
    /\ handled' = Step(c)
    /\ sent' = <<>>
    /\ connections' = [connections EXCEPT ![pending[c].room_id] =
                            DictPop(@, user_id)]
    /\ IF pending[c].failed = {user_id}
       THEN Return(c)
       ELSE /\ pending' = [pending EXCEPT ![c].failed = @ \ {user_id}]
            /\ UNCHANGED at

\* a server just made with the default options
FanInit ==
    /\ CrdtInit
    /\ kind = "map"
    /\ SessionInit
    /\ require_auth = FALSE
    /\ allow_anonymous = FALSE
    /\ auto_create_rooms = TRUE

\* RoomManager.create_room, called by the application or by the first join
\* of the room
RoomCreate(room_id) ==
    /\ room_id \notin rooms
    /\ rooms' = rooms \cup {room_id}
    /\ UNCHANGED <<crdtVars, configVars, presenceVars, taskVars, authVars,
                   rateVars>>
    /\ UNCHANGED <<conn, ws_users, ws_rooms, user_connections, connections,
                   room_state, twin_state, presence, sent, handled,
                   screen_sharers>>

\* Three clients join and leave one room as any user, and close.
FanNext ==
    \/ \E c \in FanChannels : at[c] = "idle" /\ Connect(c)
    \/ \E r \in Rooms : RoomCreate(r)
    \/ \E c \in FanChannels, type \in {"join", "leave"}, r \in Rooms,
          user \in AuthUsers, closing \in BOOLEAN :
            RoomEnter(c, type, r, user, closing)
    \/ \E c \in FanChannels : RoomMember(c)
    \/ \E c \in FanChannels : RoomBroadcast(c)
    \/ \E c \in FanChannels : RoomBroadcastDone(c)
    \/ \E c \in FanChannels, user_id \in AuthUsers : RoomRemoveFailed(c, user_id)

SpecFanOut == FanInit /\ [][FanNext]_vars

(***************************************************************************)
(* Properties of the fan-out, checked under SpecFanOut.                    *)
(***************************************************************************)
\* C32. Stable member list during fan-out: while a Room.broadcast is in
\* progress the member table of the room is the one its recipients were
\* chosen from; no add_user and no remove_user takes effect before every
\* send of the broadcast is over.
C32_StableFanOut ==
    \A c \in FanChannels :
        at[c] = "broadcast" =>
            connections[pending[c].room_id] = pending[c].members

\* a broadcast is in progress while one task waits in add_user and one in
\* remove_user for the lock of the room
C32_Witness ==
    \E c \in FanChannels, j \in FanChannels, l \in FanChannels :
        /\ at[c] = "broadcast"
        /\ at[j] = "member" /\ pending[j].type = "join"
        /\ at[l] = "member" /\ pending[l].type = "leave"
        /\ pending[j].user \notin DictKeys(connections[pending[c].room_id])
        /\ pending[l].user \in DictKeys(connections[pending[c].room_id])

(***************************************************************************)
(* The read deadline of _handle_connection: a client that stays silent.    *)
(***************************************************************************)
\* the deadlines that expire in one run
MaxDeadlines == 3

DeadlineChannels == {"c1"}

\* the deadlines that have expired on channel c since its last frame
expired(c) ==
    IF handled.type = "deadline" /\ handled.ws = c THEN handled.count ELSE 0

\* _handle_connection, wait_for raises TimeoutError: no frame came for
\* message_timeout seconds.  The server sends a ping; the loop starts again
\* when the send returns, and is left when the send raises.  writable tells
\* whether the socket still takes the frame.
ReadDeadline(c, writable) ==
    /\ conn[c] = "open"
    /\ loop[c] = "recv"
    /\ inbox[c] = <<>>
    /\ clock < MaxDeadlines * message_timeout * TicksPerSecond
    /\ clock' = clock + message_timeout * TicksPerSecond
    /\ UNCHANGED <<kind, rep, ops>>
    /\ UNCHANGED <<authVars, tokens, last_update, inbox, refused, dispatched,
                   passes, pending, configVars, taskVars, presenceVars>>
    /\ handled' = [ws |-> c, type |-> "deadline", room_id |-> "",
                   token |-> NoToken, flag |-> writable,
                   count |-> expired(c) + 1]
    /\ IF writable
       THEN /\ loop' = [loop EXCEPT ![c] = "gate"]
            /\ Reply(<<send_json(c, ws_users[c],
                                 Message("ping", "", NoUser, NoOperation))>>)
       ELSE /\ loop' = [loop EXCEPT ![c] = "finally"]
            /\ Reply(<<>>)

\* One client connects, writes frames at times and stays silent at others;
\* its socket may stop taking frames.
DeadlineNext ==
    \/ \E c \in DeadlineChannels : Connect(c)
    \/ \E c \in DeadlineChannels : ClientSend(c)
    \/ \E c \in DeadlineChannels : Gate(c)
    \/ \E c \in DeadlineChannels : Receive(c)
    \/ \E c \in DeadlineChannels, writable \in BOOLEAN : ReadDeadline(c, writable)
    \/ \E c \in DeadlineChannels : Disconnect(c)

SpecDeadline == ServerSpecInit /\ [][DeadlineNext]_vars

(***************************************************************************)
(* Properties of the read deadline, checked under SpecDeadline.            *)
(***************************************************************************)
\* C33. Read deadline: when no frame came within message_timeout the server
\* sends a ping and keeps the connection open; when the deadline expires
\* again without a frame of the client in between, the server leaves the
\* receive loop to close the connection and run the teardown.
C33_ReadDeadline ==
    [][\A c \in DeadlineChannels :
            (handled'.type = "deadline" /\ handled'.ws = c /\ handled' # handled) =>
                IF handled'.count = 1
                THEN handled'.flag =>
                        /\ OfType(sent', "ping") # {}
                        /\ loop'[c] = "gate"
                        /\ conn'[c] = "open"
                ELSE loop'[c] = "finally"]_vars

\* One user on several channels: three clients that hold the token of the
\* same user join, leave and close.  No channel ever changes its user.
MembersNext ==
    \/ \E c \in CapChannels : Connect(c)
    \/ \E c \in CapChannels, r \in Rooms : HandleJoin(c, r, "tA")
    \/ \E c \in CapChannels, r \in Rooms : HandleLeave(c, r)
    \/ \E c \in CapChannels : Disconnect(c)

SpecMembers == ServerSpecInit /\ [][MembersNext]_vars

(***************************************************************************)
(* Properties of the tables of the session layer between two handlers,     *)
(* checked under SpecMembers, where every handler is one step.             *)
(***************************************************************************)
\* C34. Membership consistency: for every channel c and every room r among
\* the rooms of c, the room r is there and its member table maps the user of
\* c to c, so that c is sent the broadcasts of r.
C34_MembershipConsistency ==
    \A c \in Channels, r \in Rooms :
        r \in ws_rooms[c] =>
            /\ r \in rooms
            /\ DictHas(connections[r], ws_users[c])
            /\ DictGet(connections[r], ws_users[c]) = c

(***************************************************************************)
(* Properties of the screen share between two handlers, checked under      *)
(* SpecShare.                                                              *)
(***************************************************************************)
\* C35. Sharer is a member: the user that shares the screen in a room is a
\* member of the room; once the sharer has left the room, the room has no
\* sharer and the screenshare_start of another member is accepted.
C35_SharerIsMember ==
    \A r \in Rooms :
        screen_sharers[r] # NoUser =>
            screen_sharers[r] \in DictKeys(connections[r])

\* the leave alone: a leave message of the user that shares the screen of
\* the room leaves the room without a sharer
LeaveReleasesShare ==
    [][\A c \in PairChannels, r \in Rooms :
            ( /\ handled'.type = "leave"
              /\ handled'.ws = c
              /\ handled'.room_id = r
              /\ ws_users[c] # NoUser
              /\ screen_sharers[r] = ws_users[c] ) =>
                screen_sharers'[r] = NoUser]_vars

(***************************************************************************)
(* Properties of the connection index between two handlers, checked under  *)
(* SpecSession.                                                            *)
(***************************************************************************)
\* C36. Connection index consistency: a channel is among the connections
\* of a user if and only if it is bound to that user; a channel that has
\* changed its user is counted under its current user only, and a closed
\* channel under no user.
C36_ConnectionIndex ==
    \A c \in Channels, u \in Users :
        c \in user_connections[u] <=> ws_users[c] = u

(***************************************************************************)
(* Joins that are refused: the server is made with auto_create_rooms on or *)
(* off, and the application makes rooms with RoomManager.create_room.      *)
(***************************************************************************)
RejectInit ==
    /\ CrdtInit
    /\ kind = "map"
    /\ SessionInit
    /\ require_auth = FALSE
    /\ allow_anonymous = FALSE
    /\ auto_create_rooms \in BOOLEAN

\* Clients authenticate and join with any token or none, and close; at most
\* MaxSessionFailures validations in a row fail on one channel.
RejectNext ==
    \/ \E c \in PairChannels : Connect(c)
    \/ \E r \in Rooms : RoomCreate(r)
    \/ \E c \in PairChannels, token \in ValidTokens : HandleAuth(c, token)
    \/ \E c \in PairChannels, r \in Rooms, token \in Tokens \cup {NoToken} :
            /\ token \notin ValidTokens \cup {NoToken}
                    => Len(failures[c]) < MaxSessionFailures
            /\ HandleJoin(c, r, token)
    \/ \E c \in PairChannels : Disconnect(c)

SpecReject == RejectInit /\ [][RejectNext]_vars

(***************************************************************************)
(* Properties of the refused joins, checked under SpecReject.              *)
(***************************************************************************)
\* C37. Rejected join has no effect: a join that is answered with an error
\* leaves the users and the rooms of the channels, the connections of the
\* users, the member table of every room and the presence as they were.
C37_RejectedJoinNoEffect ==
    [][\A c \in PairChannels :
            ( /\ handled'.type = "join"
              /\ handled'.ws = c
              /\ Len(sent') = 1
              /\ sent'[1].type = "error"
              /\ sent'[1].ws = c ) =>
                UNCHANGED <<ws_users, ws_rooms, user_connections, rooms,
                            connections, presence>>]_vars

(***************************************************************************)
(* The counters alone, on three replicas: a replica can hold some of the   *)
(* operations of a node and another replica others.                        *)
(***************************************************************************)
CounterReplicas == {"a", "b", "c"}

\* the operations that are created in one run of the counters
MaxCounterOps == 2

CounterInit ==
    /\ kind \in {"gcounter", "pncounter"}
    /\ rep = [r \in CounterReplicas |-> New(kind, r)]
    /\ ops = <<>>
    /\ clock = 1
    /\ ServerInit

CounterNext ==
    \/ \E r \in CounterReplicas, amount \in Scalars :
            Len(ops) < MaxCounterOps /\ Increment(r, amount)
    \/ \E r \in CounterReplicas, amount \in Scalars :
            Len(ops) < MaxCounterOps /\ Decrement(r, amount)
    \/ \E r \in CounterReplicas, i \in 1..Len(ops) : Apply(r, i)
    \/ \E r \in CounterReplicas, s \in CounterReplicas : Merge(r, s)

SpecCounter == CounterInit /\ [][CounterNext]_vars

(***************************************************************************)
(* Properties of the counters, checked under SpecCounter.                  *)
(***************************************************************************)
\* the increments less the decrements of the operations of a log
RECURSIVE LogSum(_)
LogSum(oplist) ==
    IF oplist = <<>> THEN 0
    ELSE (IF Head(oplist).op_type = "decrement"
          THEN 0 - Head(oplist).value ELSE Head(oplist).value)
         + LogSum(Tail(oplist))

\* C38. Counter value matches its log: after any applies and merges the
\* value of a G-Counter or PN-Counter replica is the sum of the increments
\* less the sum of the decrements of the operations in its own log, each id
\* of which is there once.
C38_CounterMatchesLog ==
    \A r \in CounterReplicas :
        /\ Cardinality(OpIds(rep[r])) = Len(rep[r].operations)
        /\ value(rep[r]) = LogSum(rep[r].operations)

(***************************************************************************)
(* The server with the cleanup task of its PresenceManager started         *)
(* (CollabkitServer.start): presence_rooms holds the time of the last      *)
(* update of every presence entry, presence the users that have one.       *)
(***************************************************************************)
\* the users that have a presence entry, room by room
presence_users(room_table) ==
    [r \in Rooms |-> IF r \in DOMAIN room_table THEN DOMAIN room_table[r]
                     ELSE {}]

\* CollabkitServer._handle_join, with the entry that PresenceManager.join_room
\* makes for the user of a join that is answered with joined
TimedJoin(c, room_id, token) ==
    /\ conn[c] = "open"
    /\ UNCHANGED <<crdtVars, configVars, taskVars>>
    /\ UNCHANGED <<screen_sharers, rateVars>>
    /\ LET gate == auth_is_allowed(AuthLimiter, c, clock)
           auth_user == validate_token(token)
           user == IF token # NoToken THEN auth_user ELSE ws_users[c]
       IN  /\ IF token # NoToken THEN AuthAttempt(c, gate, auth_user)
              ELSE UNCHANGED authVars
           /\  IF token # NoToken /\ ~gate.allowed
               THEN Reply(<<send_error(c, "RATE_LIMITED")>>)
               ELSE IF token # NoToken /\ auth_user = NoUser
               THEN Reply(<<send_error(c, "AUTHENTICATION_FAILED")>>)
               ELSE JoinCommit(c, room_id, user)
           /\ handled' = [ws |-> c, type |-> "join", room_id |-> room_id,
                          token |-> token,
                          flag |-> token # NoToken /\ gate.allowed]
    /\ presence_rooms' =
            IF room_id \in ws_rooms'[c] /\ OfType(sent', "joined") # {}
            THEN Put(presence_rooms, room_id,
                     Put(IF room_id \in DOMAIN presence_rooms
                         THEN presence_rooms[room_id] ELSE NoPresence,
                         ws_users'[c], clock))
            ELSE presence_rooms

\* CollabkitServer._handle_presence, with PresenceManager.update_presence,
\* RoomPresence.update_presence and CollabkitServer._broadcast_presence: an
\* update of a user without an entry returns False and nothing is broadcast
TimedPresence(c, room_id) ==
    /\ conn[c] = "open"
    /\ UNCHANGED <<crdtVars, configVars, taskVars>>
    /\ UNCHANGED <<screen_sharers, authVars, rateVars>>
    /\ LET user == ws_users[c]
           found == /\ room_id \in DOMAIN presence_rooms
                    /\ user \in DOMAIN presence_rooms[room_id]
           b == broadcast(connections[room_id],
                          Message("presence", room_id, user, NoOperation),
                          user, Alive, ws_users)
       IN  /\ handled' = [ws |-> c, type |-> "presence", room_id |-> room_id,
                          token |-> NoToken, flag |-> found]
           /\ IF user = NoUser
              THEN Reply(<<>>) /\ UNCHANGED presence_rooms
              ELSE IF room_id \notin ws_rooms[c]
              THEN Reply(<<send_error(c, "PERMISSION_DENIED")>>)
                   /\ UNCHANGED presence_rooms
              ELSE IF ~found
              THEN Reply(<<>>) /\ UNCHANGED presence_rooms
              ELSE /\ presence_rooms' =
                        Put(presence_rooms, room_id,
                            Put(presence_rooms[room_id], user, clock))
                   /\ connections' =
                        IF room_id \in rooms
                        THEN [connections EXCEPT ![room_id] = b.connections]
                        ELSE connections
                   /\ sent' = IF room_id \in rooms THEN b.sent ELSE <<>>
                   /\ UNCHANGED <<conn, ws_users, ws_rooms, user_connections,
                                  rooms, room_state, twin_state, presence>>

\* PresenceManager._cleanup_loop: one sweep of _cleanup_stale
ReapStale ==
    /\ presence_rooms' = cleanup_stale(presence_rooms, clock)
    /\ presence' = presence_users(presence_rooms')
    /\ handled' = [ws |-> "", type |-> "cleanup_stale", room_id |-> "",
                   token |-> NoToken, flag |-> presence_rooms' # presence_rooms]
    /\ sent' = <<>>
    /\ UNCHANGED <<crdtVars, configVars, taskVars, authVars, rateVars>>
    /\ UNCHANGED <<conn, ws_users, ws_rooms, user_connections, rooms,
                   connections, room_state, twin_state, screen_sharers>>

\* Two clients join a room, each with its token, and stay: they send
\* presence messages at times and are silent at others, and the cleanup
\* task sweeps.  Nobody leaves and no socket closes.
ReaperNext ==
    \/ \E c \in StorageChannels : Connect(c)
    \/ \E c \in StorageChannels, r \in Rooms : TimedJoin(c, r, StorageToken(c))
    \/ \E c \in StorageChannels, r \in Rooms : TimedPresence(c, r)
    \/ ReapStale
    \/ Sleep(stale_timeout)
    \/ Tick

SpecReaper == ServerSpecInit /\ [][ReaperNext]_vars

(***************************************************************************)
(* Properties of the presence of the members, checked under SpecReaper.    *)
(***************************************************************************)
\* C39. Presence of a connected member is never lost: every presence message
\* that a channel sends for a room it is joined to updates the presence entry
\* of its user and is broadcast to the other members of the room, whatever
\* sweeps of the stale entries ran before it.
C39_PresenceNeverLost ==
    [][\A c \in StorageChannels, r \in Rooms :
            ( /\ handled'.type = "presence"
              /\ handled'.ws = c
              /\ handled'.room_id = r
              /\ clock' = clock
              /\ ws_users[c] # NoUser
              /\ r \in ws_rooms[c] ) =>
                /\ r \in DOMAIN presence_rooms'
                /\ ws_users[c] \in DOMAIN presence_rooms'[r]
                /\ presence_rooms'[r][ws_users[c]] = clock
                /\ \A e \in OtherMembers(connections[r], ws_users[c]) :
                        e[2] \in Alive =>
                            BroadcastTo(sent', {e[2]}, "presence", r,
                                        ws_users[c])]_vars

(***************************************************************************)
(* The sweep of the empty rooms.  RoomManager.cleanup_empty_rooms is       *)
(* called by the application from a task of its own, on the event loop of  *)
(* the handlers.  The loop runs one task at a time, in the order in which  *)
(* the tasks became ready, and a task runs until it suspends: at a         *)
(* Room._lock that is held or has waiters (asyncio.Lock hands the lock to  *)
(* its waiters in order), and at a send.  A frame that arrives, a send     *)
(* that completes and the timer of the sweep make their task ready at any  *)
(* time.  self._ws_lock, RoomManager._lock and the lock of the presence    *)
(* manager are not held across a suspension here, so taking them does not  *)
(* suspend; no storage is set and no channel closes, so no send raises.    *)
(***************************************************************************)
SweepChannels == {"c1", "c2", "c3"}

\* the user that each channel authenticated as: two connections of one
\* user, and one of another
SweepUser(c) == IF c = "c3" THEN "B" ELSE "A"

\* the task of the application that calls cleanup_empty_rooms
SweepTask == "sweep"

\* an element occurs in a sequence
InSeq(x, seq) == \E i \in 1..Len(seq) : seq[i] = x

\* a sequence without an element
Without(seq, x) == SelectSeq(seq, LAMBDA e : e # x)

\* what the step of a task reads and writes
LoopState ==
    [connections |-> connections, room_lock |-> room_lock, at |-> at,
     pending |-> pending, ws_rooms |-> ws_rooms, sent |-> <<>>,
     ready |-> Tail(event_loop.ready), waiters |-> event_loop.waiters]

\* asyncio.Lock.acquire does not suspend: the lock is free and nobody waits
lock_free(s, room_id) ==
    s.room_lock[room_id] = NoChannel /\ s.waiters[room_id] = <<>>

\* asyncio.Lock.release: the first waiter that was not woken yet is woken
release(s, room_id) ==
    LET w == s.waiters[room_id]
    IN  [s EXCEPT !.room_lock[room_id] = NoChannel,
                  !.ready = IF w # <<>> /\ ~InSeq(Head(w), @)
                            THEN Append(@, Head(w)) ELSE @]

\* asyncio.Lock.acquire suspends: the task joins the waiters of the lock
wait(s, c, room_id, where) ==
    [s EXCEPT !.waiters[room_id] = Append(@, c), !.at[c] = where]

\* the woken waiter leaves the waiters of the lock
woken(s, c) ==
    [s EXCEPT !.waiters[s.pending[c].room_id] = Without(@, c)]

\* _handle_join and _leave_room return
return(s, c) ==
    [s EXCEPT !.at[c] = "idle",
              !.pending[c] = NoPending,
              !.ws_rooms[c] = IF s.pending[c].type = "leave"
                              THEN @ \ {s.pending[c].room_id} ELSE @]

\* Room.broadcast with the lock: the sends start, and the lock is kept
\* until they are over; without a recipient the lock is released at once
begin_broadcast(s, c) ==
    LET room_id == s.pending[c].room_id
        user == s.pending[c].user
        exclude_user == IF s.pending[c].type = "join" THEN user ELSE NoUser
        b == broadcast(s.connections[room_id],
                       Message(IF s.pending[c].type = "join"
                               THEN "user_joined" ELSE "user_left",
                               room_id, user, NoOperation),
                       exclude_user, Alive, ws_users)
    IN  IF DictKeys(s.connections[room_id]) \ {exclude_user} = {}
        THEN return(release(s, room_id), c)
        ELSE [s EXCEPT !.room_lock[room_id] = c,
                       !.at[c] = "broadcast",
                       !.sent = s.sent \o b.sent]

\* Room.broadcast at its lock
announce(s, c) ==
    IF lock_free(s, s.pending[c].room_id)
    THEN begin_broadcast(s, c)
    ELSE wait(s, c, s.pending[c].room_id, "announce")

\* Room.add_user and Room.remove_user with the lock, and the handler up to
\* its next suspension: the send of "joined", or the lock of the broadcast
member(s, c) ==
    LET room_id == s.pending[c].room_id
        user == s.pending[c].user
        type == s.pending[c].type
        m == release([s EXCEPT !.connections[room_id] =
                            IF type = "join" THEN DictSet(@, user, c)
                            ELSE DictPop(@, user)], room_id)
    IN  IF type = "join"
        THEN [m EXCEPT !.ws_rooms[c] = @ \cup {room_id},
                       !.at[c] = "joined",
                       !.sent = Append(@, [Message("joined", room_id, user,
                                                   NoOperation)
                                           EXCEPT !.ws = c])]
        ELSE announce(m, c)

\* Room.add_user and Room.remove_user at the lock
enter(s, c) ==
    IF lock_free(s, s.pending[c].room_id)
    THEN member(s, c)
    ELSE wait(s, c, s.pending[c].room_id, "member")

\* the step of a task takes effect
Run(s) ==
    /\ connections' = s.connections
    /\ room_lock' = s.room_lock
    /\ at' = s.at
    /\ pending' = s.pending
    /\ ws_rooms' = s.ws_rooms
    /\ sent' = s.sent
    /\ event_loop' = [ready |-> s.ready, waiters |-> s.waiters]

\* a Room object that is no longer in the map of the manager is still in use
Orphaned(room_id) ==
    /\ room_id \notin rooms
    /\ \/ connections[room_id] # <<>>
       \/ \E c \in SweepChannels :
            at[c] \notin {"idle", "frame"} /\ pending[c].room_id = room_id

\* what a step of the loop leaves alone
LoopFrame ==
    /\ UNCHANGED <<crdtVars, configVars, presenceVars, authVars>>
    /\ UNCHANGED <<tokens, last_update, loop, inbox, refused, dispatched, passes>>
    /\ UNCHANGED <<conn, ws_users, user_connections, room_state, twin_state,
                   presence, screen_sharers, ws_lock>>

\* a join or a leave message of a client arrives: the task of its
\* connection becomes ready
FrameArrives(c, type, room_id) ==
    /\ conn[c] = "open"
    /\ at[c] = "idle"
    /\ LoopFrame
    /\ UNCHANGED <<rooms, connections, room_lock, ws_rooms, sent, handled>>
    /\ pending' = [pending EXCEPT ![c] =
                        RoomCall(type, room_id, SweepUser(c), <<>>, {})]
    /\ at' = [at EXCEPT ![c] = "frame"]
    /\ event_loop' = [event_loop EXCEPT !.ready = Append(@, c)]

\* _handle_join from self._rooms.get_room, and _leave_room: the room is
\* looked up, and made by a join if it is not there
RunFrame(c) ==
    /\ event_loop.ready # <<>>
    /\ Head(event_loop.ready) = c
    /\ at[c] = "frame"
    /\ ~Orphaned(pending[c].room_id)
    /\ LoopFrame
    /\ handled' = Step(c)
    /\ LET room_id == pending[c].room_id
       IN  IF pending[c].type = "join"
           THEN IF room_id \in rooms \/ auto_create_rooms
                THEN /\ rooms' = rooms \cup {room_id}
                     /\ Run(enter(LoopState, c))
                ELSE /\ UNCHANGED rooms
                     /\ Run([return(LoopState, c) EXCEPT !.sent =
                            <<send_error(c, "ROOM_NOT_FOUND")>>])
           ELSE /\ UNCHANGED rooms
                /\ IF room_id \in rooms
                   THEN Run(enter(LoopState, c))
                   ELSE Run(return(LoopState, c))

\* the task that waited in add_user or remove_user has the lock
RunMember(c) ==
    /\ event_loop.ready # <<>>
    /\ Head(event_loop.ready) = c
    /\ at[c] = "member"
    /\ LoopFrame
    /\ UNCHANGED rooms
    /\ handled' = Step(c)
    /\ Run(member(woken(LoopState, c), c))

\* a send of the task is over: the "joined" reply, or the sends of its
\* broadcast
SendCompletes(c) ==
    /\ at[c] \in {"joined", "broadcast"}
    /\ ~InSeq(c, event_loop.ready)
    /\ LoopFrame
    /\ UNCHANGED <<rooms, connections, room_lock, ws_rooms, sent, handled,
                   pending, at>>
    /\ event_loop' = [event_loop EXCEPT !.ready = Append(@, c)]

\* _handle_join after the "joined" reply: room.broadcast of user_joined
RunJoined(c) ==
    /\ event_loop.ready # <<>>
    /\ Head(event_loop.ready) = c
    /\ at[c] = "joined"
    /\ LoopFrame
    /\ UNCHANGED rooms
    /\ handled' = Step(c)
    /\ Run(announce(LoopState, c))

\* the task that waited in Room.broadcast has the lock
RunAnnounce(c) ==
    /\ event_loop.ready # <<>>
    /\ Head(event_loop.ready) = c
    /\ at[c] = "announce"
    /\ LoopFrame
    /\ UNCHANGED rooms
    /\ handled' = Step(c)
    /\ Run(begin_broadcast(woken(LoopState, c), c))

\* Room.broadcast after asyncio.gather: the lock is released
RunBroadcastDone(c) ==
    /\ event_loop.ready # <<>>
    /\ Head(event_loop.ready) = c
    /\ at[c] = "broadcast"
    /\ LoopFrame
    /\ UNCHANGED rooms
    /\ handled' = Step(c)
    /\ Run(return(release(LoopState, pending[c].room_id), c))

\* the timer of the sweep fires
SweepDue ==
    /\ ~InSeq(SweepTask, event_loop.ready)
    /\ LoopFrame
    /\ UNCHANGED <<rooms, connections, room_lock, ws_rooms, sent, handled,
                   pending, at>>
    /\ event_loop' = [event_loop EXCEPT !.ready = Append(@, SweepTask)]

\* RoomManager.cleanup_empty_rooms
RunSweep ==
    /\ event_loop.ready # <<>>
    /\ Head(event_loop.ready) = SweepTask
    /\ LoopFrame
    /\ UNCHANGED <<connections, room_lock, ws_rooms, pending, at>>
    /\ rooms' = {r \in rooms : connections[r] # <<>>}
    /\ sent' = <<>>
    /\ handled' = [ws |-> NoChannel, type |-> "cleanup_empty_rooms",
                   room_id |-> "", token |-> NoToken,
                   flag |-> rooms' # rooms]
    /\ event_loop' = [event_loop EXCEPT !.ready = Tail(@)]

\* Three clients join and leave one room while the application sweeps the
\* empty rooms.
SweepNext ==
    \/ \E c \in SweepChannels : at[c] = "idle" /\ Connect(c)
    \/ \E c \in SweepChannels, type \in {"join", "leave"}, r \in Rooms :
            FrameArrives(c, type, r)
    \/ \E c \in SweepChannels : RunFrame(c)
    \/ \E c \in SweepChannels : RunMember(c)
    \/ \E c \in SweepChannels : SendCompletes(c)
    \/ \E c \in SweepChannels : RunJoined(c)
    \/ \E c \in SweepChannels : RunAnnounce(c)
    \/ \E c \in SweepChannels : RunBroadcastDone(c)
    \/ SweepDue
    \/ RunSweep

SpecSweep == FanInit /\ [][SweepNext]_vars

(***************************************************************************)
(* Properties of the sweep, checked under SpecSweep.                       *)
(***************************************************************************)
\* C40. Join versus empty-room sweep: under any interleaving of the join
\* handlers with cleanup_empty_rooms, a room that has at least one member is
\* in the map of the room manager; no join adds its user to a Room object
\* that the sweep has removed.
C40_JoinVersusSweep ==
    \A r \in Rooms : connections[r] # <<>> => r \in rooms

====
